---- MODULE Spec2Model ----
(***************************************************************************)
(* Model of the linting facade of Codey (src/CodeyLinter.py): the lint      *)
(* dispatcher, the ignore-pattern resolver, the process runner, the        *)
(* diagnostic normalizer, the four backend adapters and the result cache.  *)
(*                                                                         *)
(* Representation of Python values:                                        *)
(*  - a str is a sequence of atoms; an atom is a whitespace character or a *)
(*    piece of text that neither starts nor ends with whitespace.  Paths   *)
(*    and glob patterns use one-character atoms.                           *)
(*  - Optional[x] is a sequence of length at most one: None is <<>>.       *)
(*  - a dict that preserves insertion order (the cache) is a sequence of   *)
(*    [key, value] records with pairwise distinct keys.                    *)
(*  - a call that may raise returns [raised |-> TRUE, ...].                *)
(***************************************************************************)
EXTENDS Integers, Sequences, FiniteSets, TLC

VARIABLES
    cache,        \* _CACHE, in insertion order
    markers,      \* the .codeyignore files on disk: directory -> marker file
    req,          \* the arguments of the most recent lint call
    ret,          \* how the most recent lint call ended
    adapters,     \* the backend adapters the most recent call invoked, in order
    spawns,       \* every subprocess.run of the most recent call: [tool, o, argv]
    cache_reads,  \* the number of _cache_get calls of the most recent call
    cache_writes, \* the number of _cache_set calls of the most recent call
    probes,       \* every shutil.which of the most recent call: [tool, found]
    pre,          \* _CACHE as it was when the most recent call began
    issued,       \* the number of never-seen-before texts the caller has linted
    tmp,          \* the temporary file of the most recent call: [created, unlink, left]
    threads,      \* the lint calls in progress, one per calling thread
    _lint_worker,   \* CodeyApp._lint_worker: None or a worker (its index in workers)
    _lint_pending,  \* CodeyApp._lint_pending: None or the request recorded last
    _is_closing,    \* CodeyApp._is_closing
    _pending_close, \* CodeyApp._pending_close
    workers,      \* every LintWorker created so far, in order of creation
    events,       \* the signals queued for the main thread, oldest first
    requests,     \* the number of run_lint calls so far
    analysed      \* history: the <<language, text>> pairs handed to an adapter so far

vars == <<cache, markers, req, ret, adapters, spawns, cache_reads, cache_writes, probes,
          pre, issued, tmp, threads, analysed,
          _lint_worker, _lint_pending, _is_closing, _pending_close, workers, events,
          requests>>

\* the state of the linter module, and the state of the editor
linter_vars == <<cache, markers, req, ret, adapters, spawns, cache_reads, cache_writes,
                 probes, pre, issued, tmp, analysed>>
editor_vars == <<_lint_worker, _lint_pending, _is_closing, _pending_close, workers,
                 events, requests>>

-----------------------------------------------------------------------------
(* Python str and Optional *)

None == <<>>
Some(x) == <<x>>

Whitespace == {" ", "\t", "\n"}

RECURSIVE lstrip(_)
lstrip(s) ==
    IF s # <<>> /\ Head(s) \in Whitespace THEN lstrip(Tail(s)) ELSE s

RECURSIVE rstrip(_)
rstrip(s) ==
    IF s # <<>> /\ s[Len(s)] \in Whitespace
    THEN rstrip(SubSeq(s, 1, Len(s) - 1))
    ELSE s

\* str.strip()
strip(s) == rstrip(lstrip(s))

\* the atoms that str.lower() changes
LowerOf ==
    [a \in {"Python", "PYTHON", "JavaScript", "C", "CPP", "Cpp", "Ruby",
            "Error", "ERROR", "Fatal", "Warning", "Info", "Not Found",
            "Refactor", "CONVENTION", "Information", "Hint"} |->
        CASE a = "Python" -> "python"
          [] a = "Refactor" -> "refactor"
          [] a = "CONVENTION" -> "convention"
          [] a = "Information" -> "information"
          [] a = "Hint" -> "hint"
          [] a = "PYTHON" -> "python"
          [] a = "JavaScript" -> "javascript"
          [] a = "C" -> "c"
          [] a = "CPP" -> "cpp"
          [] a = "Cpp" -> "cpp"
          [] a = "Ruby" -> "ruby"
          [] a = "Error" -> "error"
          [] a = "ERROR" -> "error"
          [] a = "Fatal" -> "fatal"
          [] a = "Warning" -> "warning"
          [] a = "Info" -> "info"
          [] a = "Not Found" -> "not found"]

\* str.lower()
lower(s) ==
    [i \in 1..Len(s) |-> IF s[i] \in DOMAIN LowerOf THEN LowerOf[s[i]] ELSE s[i]]

\* `sub in s` for a one-atom sub
contains(s, sub) == \E i \in 1..Len(s) : s[i] = sub

\* truth value of a str or of an Optional[str]
truthy(s) == Len(s) > 0

-----------------------------------------------------------------------------
(* Content hash: hashlib.sha256(text.encode('utf-8')).hexdigest().  SHA-256 *)
(* is modelled as a collision-free digest: the positional numeral of the   *)
(* atoms' codes, which is injective on texts over HashAtoms.               *)

HashAtoms == <<" ", "\t", "\n", "a", "b", "c", "d", "e", "f", "g", "h", "i", "j", "k", "l">>

AtomCode(a) == CHOOSE i \in 1..Len(HashAtoms) : HashAtoms[i] = a

RECURSIVE Digest(_)
Digest(bytes) ==
    IF bytes = <<>> THEN 0
    ELSE Digest(SubSeq(bytes, 1, Len(bytes) - 1)) * (Len(HashAtoms) + 1)
         + AtomCode(bytes[Len(bytes)])

\* a key computed from the stripped text
sha256_of_stripped(text) == Digest(strip(text))

sha256(text) == Digest(text)

-----------------------------------------------------------------------------
(* Ignore-pattern resolver *)

Sep == "/"

\* os.path.isabs
isabs(p) == p # <<>> /\ Head(p) = Sep

\* the process's working directory
Cwd == <<"/", "w">>

\* os.path.abspath, for paths without "." and ".." components
abspath(p) == IF isabs(p) THEN p ELSE Cwd \o <<Sep>> \o p

\* index of the last separator of p (0 if none)
LastSep(p) ==
    IF \E i \in 1..Len(p) : p[i] = Sep
    THEN CHOOSE i \in 1..Len(p) : p[i] = Sep /\ \A j \in (i + 1)..Len(p) : p[j] # Sep
    ELSE 0

\* os.path.dirname: dirname("/p/a") = "/p", dirname("/p") = "/", dirname("/") = "/"
dirname(p) ==
    LET i == LastSep(p) IN
    IF i = 0 THEN <<>>
    ELSE IF i = 1 THEN <<Sep>>
    ELSE SubSeq(p, 1, i - 1)

\* os.path.basename
basename(p) == SubSeq(p, LastSep(p) + 1, Len(p))

\* os.path.relpath(path, start) for start an ancestor directory of path
relpath(path, start) ==
    IF start = <<Sep>> THEN Tail(path)
    ELSE SubSeq(path, Len(start) + 2, Len(path))

\* str.startswith
startswith(s, prefix) ==
    Len(s) >= Len(prefix) /\ SubSeq(s, 1, Len(prefix)) = prefix

\* str.endswith
endswith(s, suffix) ==
    Len(s) >= Len(suffix) /\ SubSeq(s, Len(s) - Len(suffix) + 1, Len(s)) = suffix

\* str.rstrip('/')
RECURSIVE rstrip_sep(_)
rstrip_sep(s) ==
    IF s # <<>> /\ s[Len(s)] = Sep THEN rstrip_sep(SubSeq(s, 1, Len(s) - 1)) ELSE s

\* fnmatch.fnmatch(name, pat) on a POSIX system: * matches any run of
\* characters (separators included), ? matches one character.
RECURSIVE fnmatch(_, _)
fnmatch(name, pat) ==
    IF pat = <<>> THEN name = <<>>
    ELSE IF Head(pat) = "*"
         THEN fnmatch(name, Tail(pat))
              \/ (name # <<>> /\ fnmatch(Tail(name), pat))
    ELSE IF Head(pat) = "?"
         THEN name # <<>> /\ fnmatch(Tail(name), Tail(pat))
    ELSE name # <<>> /\ Head(name) = Head(pat) /\ fnmatch(Tail(name), Tail(pat))

\* A marker file is [readable, lines]; fs maps the directories that hold a
\* .codeyignore to it.  The lines read before a read failure are kept.
RECURSIVE MarkerPatterns(_, _)
MarkerPatterns(dir, lines) ==
    IF lines = <<>> THEN <<>>
    ELSE LET line == strip(Head(lines)) IN
         IF line = <<>> \/ Head(line) = "#"
         THEN MarkerPatterns(dir, Tail(lines))
         ELSE <<<<dir, line>>>> \o MarkerPatterns(dir, Tail(lines))

\* a walk that stops at the nearest directory that holds a marker file
RECURSIVE WalkUp_nearest(_, _)
WalkUp_nearest(fs, current) ==
    IF current \in DOMAIN fs
    THEN IF fs[current].readable THEN MarkerPatterns(current, fs[current].lines) ELSE <<>>
    ELSE IF dirname(current) = current \/ current = <<>>
    THEN <<>>
    ELSE WalkUp_nearest(fs, dirname(current))

\* the while loop of _load_ignore_patterns, from directory current upward
RECURSIVE WalkUp(_, _)
WalkUp(fs, current) ==
    LET here == IF current \in DOMAIN fs /\ fs[current].readable
                THEN MarkerPatterns(current, fs[current].lines)
                ELSE <<>>
    IN IF dirname(current) = current \/ current = <<>>
       THEN here
       ELSE here \o WalkUp(fs, dirname(current))

_load_ignore_patterns(fs, base_dir) ==
    IF ~truthy(base_dir) THEN <<>> ELSE WalkUp(fs, abspath(base_dir))

\* a rule test that leaves out the basename match
RuleMatches_no_basename(abs_path, rule) ==
    LET rel == relpath(abs_path, rule[1])
        pat == rule[2]
    IN IF endswith(pat, <<Sep>>)
       THEN LET prefix == rstrip_sep(pat) IN
            startswith(rel, prefix \o <<Sep>>) \/ rel = prefix
       ELSE fnmatch(rel, pat)

\* one iteration of the for loop of _is_ignored
RuleMatches(abs_path, rule) ==
    LET rel == relpath(abs_path, rule[1])
        pat == rule[2]
    IN IF endswith(pat, <<Sep>>)
       THEN LET prefix == rstrip_sep(pat) IN
            startswith(rel, prefix \o <<Sep>>) \/ rel = prefix
       ELSE fnmatch(rel, pat) \/ fnmatch(basename(rel), pat)

_is_ignored(fs, file_path) ==
    IF file_path = None \/ ~truthy(file_path[1]) THEN FALSE
    ELSE LET abs_path == abspath(file_path[1])
             patterns == _load_ignore_patterns(fs, dirname(abs_path))
         IN \E i \in 1..Len(patterns) : RuleMatches(abs_path, patterns[i])

-----------------------------------------------------------------------------
(* Result cache *)

_CACHE_MAX == 128

HasKey(c, key) == \E i \in 1..Len(c) : c[i].key = key

\* a lookup that takes a stored empty list for a miss
_cache_get_falsy(c, key) ==
    IF HasKey(c, key)
       /\ (CHOOSE e \in {c[i] : i \in 1..Len(c)} : e.key = key).value # <<>>
    THEN Some((CHOOSE e \in {c[i] : i \in 1..Len(c)} : e.key = key).value)
    ELSE None

\* _CACHE.get(key): None or the stored list
_cache_get(c, key) ==
    IF HasKey(c, key)
    THEN Some((CHOOSE e \in {c[i] : i \in 1..Len(c)} : e.key = key).value)
    ELSE None

\* _CACHE[key] = value: an existing key keeps its place, a new one goes last
DictSet(c, key, value) ==
    IF HasKey(c, key)
    THEN [i \in 1..Len(c) |-> IF c[i].key = key THEN [key |-> key, value |-> value] ELSE c[i]]
    ELSE Append(c, [key |-> key, value |-> value])

\* _cache_set with the capacity test off by one (len > max)
_cache_set_late(c, key, value) ==
    IF Len(c) > _CACHE_MAX
    THEN DictSet(Tail(c), key, value)
    ELSE DictSet(c, key, value)

\* _cache_set that evicts after it inserted, and evicts the newest entry
_cache_set_evict_new(c, key, value) ==
    LET d == DictSet(c, key, value) IN
    IF Len(d) > _CACHE_MAX THEN SubSeq(d, 1, Len(d) - 1) ELSE d

\* _cache_set that leaves out a list of one error diagnostic
_cache_set_skip_failures(c, key, value) ==
    IF Len(value) = 1 /\ value[1].severity = "error" THEN c
    ELSE IF Len(c) >= _CACHE_MAX
    THEN DictSet(Tail(c), key, value)
    ELSE DictSet(c, key, value)

\* _CACHE.pop(next(iter(_CACHE))): the first key in insertion order goes
_cache_set(c, key, value) ==
    IF Len(c) >= _CACHE_MAX
    THEN DictSet(Tail(c), key, value)
    ELSE DictSet(c, key, value)

-----------------------------------------------------------------------------
(* Process runner *)

\* What subprocess.run does with an argv: the process exits by itself with
\* (code, out, err), runs into the timeout, cannot be found, or cannot be
\* spawned for another reason (exc is the text of that exception).
\* stdout is [kind, val]: the empty string, text that is no JSON document, or
\* the text of the JSON document val.

JNull == [t |-> "null"]
JBool(b) == [t |-> "bool", b |-> b]
JNum(n) == [t |-> "num", n |-> n]
JStr(s) == [t |-> "str", s |-> s]
JArr(items) == [t |-> "arr", items |-> items]
JObj(f) == [t |-> "obj", f |-> f]

EmptyOut == [kind |-> "empty", val |-> JNull]
GarbageOut == [kind |-> "garbage", val |-> JNull]
JsonOut(v) == [kind |-> "json", val |-> v]

Exited(code, out, err) ==
    [kind |-> "exit", code |-> code, out |-> out, err |-> err, exc |-> <<>>]
TimedOut == [kind |-> "timeout", code |-> 0, out |-> EmptyOut, err |-> <<>>, exc |-> <<>>]
Missing == [kind |-> "notfound", code |-> 0, out |-> EmptyOut, err |-> <<>>, exc |-> <<>>]
SpawnError(exc) ==
    [kind |-> "oserror", code |-> 0, out |-> EmptyOut, err |-> <<>>, exc |-> exc]
\* the process exited by itself with code, and decoding its output as text
\* (text=True) raised UnicodeDecodeError inside subprocess.run
DecodeError(code) ==
    [kind |-> "decode", code |-> code, out |-> GarbageOut, err |-> <<>>,
     exc |-> <<"'utf-8' codec can't decode byte 0xff">>]

\* an argv is a list of strs; Args makes one of one-atom words
Args(words) == [i \in 1..Len(words) |-> <<words[i]>>]

\* " ".join(argv)
RECURSIVE join_space(_)
join_space(argv) ==
    IF argv = <<>> THEN <<>>
    ELSE IF Len(argv) = 1 THEN argv[1]
    ELSE argv[1] \o <<" ">> \o join_space(Tail(argv))

\* a runner that reports a missing executable like any other failure
_run_process_generic(argv, o) ==
    CASE o.kind = "exit" ->
            [code |-> o.code, out |-> o.out, err |-> o.err, err_msg |-> None]
      [] o.kind = "timeout" ->
            [code |-> 1, out |-> EmptyOut, err |-> <<>>,
             err_msg |-> Some(<<"Command timed out:", " ">> \o join_space(argv))]
      [] OTHER ->
            [code |-> 1, out |-> EmptyOut, err |-> <<>>,
             err_msg |-> Some(<<"Process error:", " ">> \o o.exc)]

_run_process(argv, o) ==
    CASE o.kind = "exit" ->
            [code |-> o.code, out |-> o.out, err |-> o.err, err_msg |-> None]
      [] o.kind = "timeout" ->
            [code |-> 1, out |-> EmptyOut, err |-> <<>>,
             err_msg |-> Some(<<"Command timed out:", " ">> \o join_space(argv))]
      [] o.kind = "notfound" ->
            [code |-> 127, out |-> EmptyOut, err |-> <<>>,
             err_msg |-> Some(<<"Tool", " ", "not found", ":", " ">> \o argv[1])]
      [] OTHER ->
            [code |-> 1, out |-> EmptyOut, err |-> <<>>,
             err_msg |-> Some(<<"Process error:", " ">> \o o.exc)]

-----------------------------------------------------------------------------
(* Diagnostic normalizer *)

Raised(exc) == [raised |-> TRUE, exc |-> exc, val |-> <<>>]
Ok(v) == [raised |-> FALSE, exc |-> "", val |-> v]

\* bool(v) of a decoded JSON value
py_truthy(v) ==
    CASE v.t = "null" -> FALSE
      [] v.t = "bool" -> v.b
      [] v.t = "num" -> v.n # 0
      [] v.t = "str" -> v.s # <<>>
      [] v.t = "arr" -> v.items # <<>>
      [] OTHER -> DOMAIN v.f # {}

\* v.get(key, default): only a dict has it
py_get(v, key, default) ==
    IF v.t # "obj" THEN Raised("AttributeError")
    ELSE IF key \in DOMAIN v.f THEN Ok(v.f[key]) ELSE Ok(default)

\* a or b
py_or(a, b) == IF py_truthy(a) THEN a ELSE b

\* iter(v): a list yields its items, a str its characters, a dict its keys
py_iter(v) ==
    CASE v.t = "arr" -> Ok(v.items)
      [] v.t = "str" -> Ok([i \in 1..Len(v.s) |-> JStr(<<v.s[i]>>)])
      [] v.t = "obj" ->
            Ok(IF DOMAIN v.f = {} THEN <<>>
               ELSE LET RECURSIVE keys(_)
                        keys(ks) == IF ks = {} THEN <<>>
                                    ELSE LET k == CHOOSE k \in ks : TRUE
                                         IN <<JStr(<<k>>)>> \o keys(ks \ {k})
                    IN keys(DOMAIN v.f))
      [] OTHER -> Raised("TypeError")

\* max(1, v)
py_max1(v) ==
    CASE v.t = "num" -> Ok(IF v.n > 1 THEN v.n ELSE 1)
      [] v.t = "bool" -> Ok(1)
      [] OTHER -> Raised("TypeError")

\* a normalization that compares the letters as they are
_normalize_severity_no_lower(raw) ==
    IF ~py_truthy(raw) THEN Ok("warning")
    ELSE IF raw.t # "str" THEN Raised("AttributeError")
    ELSE LET r == raw.s IN
         IF r \in {<<"fatal">>, <<"error">>} THEN Ok("error")
         ELSE IF r \in {<<"warning">>, <<"refactor">>, <<"convention">>} THEN Ok("warning")
         ELSE IF r \in {<<"info">>, <<"information">>} THEN Ok("info")
         ELSE Ok("warning")

_normalize_severity(raw) ==
    IF ~py_truthy(raw) THEN Ok("warning")
    ELSE IF raw.t # "str" THEN Raised("AttributeError")
    ELSE LET r == lower(raw.s) IN
         IF r \in {<<"fatal">>, <<"error">>} THEN Ok("error")
         ELSE IF r \in {<<"warning">>, <<"refactor">>, <<"convention">>} THEN Ok("warning")
         ELSE IF r \in {<<"info">>, <<"information">>} THEN Ok("info")
         ELSE Ok("warning")

_create_diagnostic(line, col, message, severity) ==
    LET l == py_max1(line)
        c == py_max1(col)
    IN IF l.raised THEN l
       ELSE IF c.raised THEN c
       ELSE IF py_truthy(message) /\ message.t # "str" THEN Raised("AttributeError")
       ELSE Ok([line |-> l.val,
                col |-> c.val,
                message |-> IF py_truthy(message) THEN strip(message.s)
                            ELSE <<"Unknown issue">>,
                severity |-> severity])

\* _create_diagnostic(1, 1, <a str>, 'error'): it cannot raise
ErrorAt11(msg) == _create_diagnostic(JNum(1), JNum(1), JStr(msg), "error").val

\* json.loads(out or '[]')
json_loads(out) ==
    CASE out.kind = "empty" -> Ok(JArr(<<>>))
      [] out.kind = "garbage" -> Raised("JSONDecodeError")
      [] OTHER -> Ok(out.val)

-----------------------------------------------------------------------------
(* Compiler output parser *)

\* int(<digits>) of the numeric atoms used
IntOf ==
    [a \in {"0", "1", "2", "3", "7", "12"} |->
        CASE a = "0" -> 0 [] a = "1" -> 1 [] a = "2" -> 2
          [] a = "3" -> 3 [] a = "7" -> 7 [] a = "12" -> 12]

SevWords == {"warning", "error", "fatal error", "note"}

\* first index >= i that holds no whitespace (\s*)
RECURSIVE SkipWs(_, _)
SkipWs(s, i) ==
    IF i <= Len(s) /\ s[i] \in Whitespace THEN SkipWs(s, i + 1) ELSE i

\* first index >= i that holds a newline, or Len(s) + 1 ((.*)$)
RECURSIVE LineEnd(_, _)
LineEnd(s, i) ==
    IF i <= Len(s) /\ s[i] # "\n" THEN LineEnd(s, i + 1) ELSE i

\* :(\d+):(\d+):\s*(warning|error|fatal error|note): at index i
HeaderAt(s, i) ==
    /\ i + 4 <= Len(s)
    /\ s[i] = ":" /\ s[i + 1] \in DOMAIN IntOf
    /\ s[i + 2] = ":" /\ s[i + 3] \in DOMAIN IntOf
    /\ s[i + 4] = ":"
    /\ LET j == SkipWs(s, i + 5) IN
       j + 1 <= Len(s) /\ s[j] \in SevWords /\ s[j + 1] = ":"

\* pattern.finditer(output) from the line start p on: ^ matches at a line
\* start only, the prefix (?:.*?) is the shortest one within the line
RECURSIVE ParseFrom(_, _)
ParseFrom(s, p) ==
    IF p > Len(s) THEN <<>>
    ELSE LET eol == LineEnd(s, p)
             heads == {i \in p..(eol - 1) : HeaderAt(s, i)}
         IN IF heads = {} THEN ParseFrom(s, eol + 1)
            ELSE LET i == CHOOSE h \in heads : \A g \in heads : h <= g
                     j == SkipWs(s, i + 5)
                     k == SkipWs(s, j + 2)
                     e == LineEnd(s, k)
                     d == _create_diagnostic(
                              JNum(IntOf[s[i + 1]]),
                              JNum(IntOf[s[i + 3]]),
                              JStr(strip(SubSeq(s, k, e - 1))),
                              IF s[j] \in {"error", "fatal error"} THEN "error"
                              ELSE "warning")
                 IN (IF d.raised THEN <<>> ELSE <<d.val>>) \o ParseFrom(s, e + 1)

\* a parser that finds nothing
_parse_compiler_output_none(output) == <<>>

_parse_compiler_output(output) == ParseFrom(output, 1)

-----------------------------------------------------------------------------
(* Backend adapters.  w is what the adapter meets outside the program:      *)
(* tmp_ok (the temporary file can be written), which (the tools            *)
(* shutil.which finds), run1 and run2 (what the first and the second       *)
(* subprocess.run of the call do).  An adapter returns                     *)
(* [raised, exc, val, spawns, probes]: spawns lists every subprocess.run   *)
(* it made with what the run did, probes every shutil.which.               *)

AdapterReturn(val, runs, whichs) ==
    [raised |-> FALSE, exc |-> "", val |-> val, spawns |-> runs, probes |-> whichs]
AdapterRaise(exc, runs, whichs) ==
    [raised |-> TRUE, exc |-> exc, val |-> <<>>, spawns |-> runs, probes |-> whichs]

\* a test of err_msg that never sees one
opt_truthy_never(o) == FALSE

opt_truthy(o) == o # None /\ truthy(o[1])

\* The temporary file of an adapter call: whether NamedTemporaryFile
\* created it, what became of os.unlink ("none": not called, "ok", "failed"),
\* and whether the file is still on disk when the adapter is left.
NoTmp == [created |-> FALSE, unlink |-> "none", left |-> FALSE]

\* the except branch after the with block: the adapter returns without
\* unlinking; w.tmp_created tells whether the failure came after the creation
except_tmp(r, w) ==
    [raised |-> r.raised, exc |-> r.exc, val |-> r.val, spawns |-> r.spawns,
     probes |-> r.probes,
     tmp |-> [created |-> w.tmp_created, unlink |-> "none", left |-> w.tmp_created]]

\* the finally clause: os.unlink(tmp_path), a failure of which is swallowed
finally_unlink(r, w) ==
    [raised |-> r.raised, exc |-> r.exc, val |-> r.val, spawns |-> r.spawns,
     probes |-> r.probes,
     tmp |-> [created |-> TRUE,
              unlink |-> IF w.unlink_ok THEN "ok" ELSE "failed",
              left |-> ~w.unlink_ok]]

\* tmp.name of NamedTemporaryFile(suffix=...): a fresh name in the directory
\* tempfile.gettempdir() gives (TMPDIR), a str
TmpName(w, suffix) == w.tmp_dir \o <<"/", "tmpq7_x", suffix>>

sys_executable == "/usr/bin/python3"

PylintFlags ==
    <<"--output-format=json", "--score=n", "--reports=n", "--max-line-length=500",
      "--disable=missing-module-docstring,missing-function-docstring,missing-class-docstring">>

_run_pylint(tmp_path, w) ==
    LET argv1 == Args(<<"pylint">> \o PylintFlags) \o <<tmp_path>>
        argv2 == Args(<<sys_executable, "-m", "pylint">> \o PylintFlags) \o <<tmp_path>>
        first == _run_process(argv1, w.run1)
    IN IF opt_truthy(first.err_msg) /\ contains(lower(first.err_msg[1]), "not found")
       THEN [res |-> _run_process(argv2, w.run2),
             spawns |-> <<[tool |-> "pylint", o |-> w.run1, argv |-> argv1],
                          [tool |-> sys_executable, o |-> w.run2, argv |-> argv2]>>]
       ELSE [res |-> first,
             spawns |-> <<[tool |-> "pylint", o |-> w.run1, argv |-> argv1]>>]

\* the body of the for loop of _lint_python_pylint: one item
PylintItem(item) ==
    IF item.t # "obj" THEN Raised("AttributeError")
    ELSE LET sev == _normalize_severity(py_get(item, "type", JNull).val)
         IN IF sev.raised THEN sev
            ELSE _create_diagnostic(
                     py_or(py_get(item, "line", JNum(1)).val, JNum(1)),
                     py_or(py_get(item, "column", JNum(1)).val, JNum(1)),
                     py_get(item, "message", JStr(<<"Unknown issue">>)).val,
                     sev.val)

\* the for loop of _lint_python_pylint: an item that raises is skipped
RECURSIVE PylintItems(_)
PylintItems(items) ==
    IF items = <<>> THEN <<>>
    ELSE LET d == PylintItem(Head(items))
         IN (IF d.raised THEN <<>> ELSE <<d.val>>) \o PylintItems(Tail(items))

\* an accepted set without the code 4
PylintCodes_no_4 == {0, 1, 2, 8, 16, 32}

PylintCodes == {0, 1, 2, 4, 8, 16, 32}

_lint_python_pylint(text, w) ==
    IF ~w.tmp_ok
    THEN except_tmp(
             AdapterReturn(<<ErrorAt11(<<"Failed to create temp file:", " ", "OSError">>)>>,
                           <<>>, <<>>), w)
    ELSE finally_unlink(
         LET run == _run_pylint(TmpName(w, ".py"), w)
             r == run.res
             parsed == json_loads(r.out)
             it == py_iter(parsed.val)
         IN IF opt_truthy(r.err_msg)
            THEN AdapterReturn(<<ErrorAt11(r.err_msg[1])>>, run.spawns, <<>>)
            ELSE IF parsed.raised
            THEN AdapterReturn(
                     <<IF strip(r.err) # <<>> THEN ErrorAt11(strip(r.err))
                       ELSE ErrorAt11(<<"Failed to parse pylint output:", " ",
                                        "JSONDecodeError">>)>>,
                     run.spawns, <<>>)
            ELSE IF it.raised
            THEN AdapterReturn(<<ErrorAt11(<<"Linting error:", " ", it.exc>>)>>, run.spawns, <<>>)
            ELSE AdapterReturn(
                     PylintItems(it.val)
                     \o (IF r.code \notin PylintCodes /\ strip(r.err) # <<>>
                         THEN <<ErrorAt11(strip(r.err))>> ELSE <<>>),
                     run.spawns, <<>>),
         w)

_run_eslint(tmp_path, w) ==
    LET argv == Args(<<"eslint", "-f", "json">>) \o <<tmp_path>>
    IN [res |-> _run_process(argv, w.run1),
        spawns |-> <<[tool |-> "eslint", o |-> w.run1, argv |-> argv]>>]

\* the body of the inner for loop of _lint_javascript_eslint: one message
EslintMessage(msg) ==
    IF msg.t # "obj" THEN Raised("AttributeError")
    ELSE LET sev == py_get(msg, "severity", JNum(1)).val
         IN _create_diagnostic(
                py_or(py_get(msg, "line", JNum(1)).val, JNum(1)),
                py_or(py_get(msg, "column", JNum(1)).val, JNum(1)),
                py_get(msg, "message", JStr(<<"Unknown issue">>)).val,
                IF sev.t = "num" /\ sev.n = 2 THEN "error" ELSE "warning")

\* the inner for loop: the first message that raises ends the loop
RECURSIVE EslintMessages(_)
EslintMessages(msgs) ==
    IF msgs = <<>> THEN Ok(<<>>)
    ELSE LET d == EslintMessage(Head(msgs))
             rest == EslintMessages(Tail(msgs))
         IN IF d.raised THEN d
            ELSE IF rest.raised THEN rest
            ELSE Ok(<<d.val>> \o rest.val)

\* the outer for loop over the per-file results
RECURSIVE EslintFiles(_)
EslintFiles(items) ==
    IF items = <<>> THEN Ok(<<>>)
    ELSE LET messages == py_get(Head(items), "messages", JArr(<<>>))
             it == py_iter(messages.val)
             ds == EslintMessages(it.val)
             rest == EslintFiles(Tail(items))
         IN IF messages.raised THEN messages
            ELSE IF it.raised THEN it
            ELSE IF ds.raised THEN ds
            ELSE IF rest.raised THEN rest
            ELSE Ok(ds.val \o rest.val)

EslintCodes == {0, 1, 2}

_lint_javascript_eslint(text, w) ==
    IF ~w.tmp_ok
    THEN except_tmp(
             AdapterReturn(<<ErrorAt11(<<"Failed to create temp file:", " ", "OSError">>)>>,
                           <<>>, <<>>), w)
    ELSE finally_unlink(
         LET run == _run_eslint(TmpName(w, ".js"), w)
             r == run.res
             parsed == json_loads(r.out)
             it == py_iter(parsed.val)
             ds == EslintFiles(it.val)
         IN IF opt_truthy(r.err_msg)
            THEN AdapterReturn(<<ErrorAt11(r.err_msg[1])>>, run.spawns, <<>>)
            ELSE IF parsed.raised
            THEN AdapterReturn(
                     <<IF strip(r.err) # <<>> THEN ErrorAt11(strip(r.err))
                       ELSE ErrorAt11(<<"Failed to parse eslint output:", " ",
                                        "JSONDecodeError">>)>>,
                     run.spawns, <<>>)
            ELSE IF it.raised THEN AdapterRaise(it.exc, run.spawns, <<>>)
            ELSE IF ds.raised THEN AdapterRaise(ds.exc, run.spawns, <<>>)
            ELSE AdapterReturn(
                     ds.val
                     \o (IF r.code \notin EslintCodes /\ strip(r.err) # <<>>
                         THEN <<ErrorAt11(strip(r.err))>> ELSE <<>>),
                     run.spawns, <<>>),
         w)

\* the candidates of _pick_compiler
Candidates(is_cpp) == IF is_cpp THEN <<"clang++", "g++">> ELSE <<"clang", "gcc">>

\* a choice that prefers the second candidate
_pick_compiler_last(is_cpp, w) ==
    LET candidates == Candidates(is_cpp)
    IN IF candidates[2] \in w.which THEN Some(candidates[2])
       ELSE IF candidates[1] \in w.which THEN Some(candidates[1])
       ELSE None

\* shutil.which over the candidates, in order: the first one found
_pick_compiler(is_cpp, w) ==
    LET candidates == Candidates(is_cpp)
    IN IF candidates[1] \in w.which THEN Some(candidates[1])
       ELSE IF candidates[2] \in w.which THEN Some(candidates[2])
       ELSE None

\* the shutil.which calls _pick_compiler makes
PickProbes(is_cpp, w) ==
    LET candidates == Candidates(is_cpp)
    IN IF candidates[1] \in w.which
       THEN <<[tool |-> candidates[1], found |-> TRUE]>>
       ELSE <<[tool |-> candidates[1], found |-> FALSE],
              [tool |-> candidates[2], found |-> candidates[2] \in w.which]>>

_lint_c_compiler(text, is_cpp, w) ==
    IF ~w.tmp_ok
    THEN except_tmp(
             AdapterReturn(<<ErrorAt11(<<"Failed to create temp file:", " ", "OSError">>)>>,
                           <<>>, <<>>), w)
    ELSE finally_unlink(
         LET compiler == _pick_compiler(is_cpp, w)
             whichs == PickProbes(is_cpp, w)
         IN
         IF compiler = None
         THEN AdapterReturn(
                  <<ErrorAt11(<<"No compiler found (clang/gcc). Install a compiler first.">>)>>,
                  <<>>, whichs)
         ELSE LET argv == Args(<<compiler[1], "-fsyntax-only", "-Wall", "-Wextra",
                                 "-pedantic", "-pipe",
                                 IF is_cpp THEN "-std=c++11" ELSE "-std=c11">>)
                          \o <<TmpName(w, IF is_cpp THEN ".cpp" ELSE ".c")>>
                  r == _run_process(argv, w.run1)
                  runs == <<[tool |-> compiler[1], o |-> w.run1, argv |-> argv]>>
                  parsed == _parse_compiler_output(r.err)
              IN IF opt_truthy(r.err_msg)
                 THEN AdapterReturn(<<ErrorAt11(r.err_msg[1])>>, runs, whichs)
                 ELSE IF r.code \notin {0, 1} /\ parsed = <<>>
                 THEN AdapterReturn(
                          <<ErrorAt11(IF strip(r.err) # <<>> THEN strip(r.err)
                                      ELSE <<compiler[1], " ", "compilation failed">>)>>,
                          runs, whichs)
                 ELSE AdapterReturn(parsed, runs, whichs),
         w)

-----------------------------------------------------------------------------
(* Lint dispatcher *)

\* how a lint call ends, and what it did on the way
Returned(c, val, ads, runs, whichs, reads, writes, file) ==
    [cache |-> c,
     ret |-> [kind |-> "list", val |-> val, exc |-> ""],
     adapters |-> ads, spawns |-> runs, probes |-> whichs,
     reads |-> reads, writes |-> writes, tmp |-> file]

Propagated(c, exc, ads, runs, whichs, reads, writes, file) ==
    [cache |-> c,
     ret |-> [kind |-> "raise", val |-> <<>>, exc |-> exc],
     adapters |-> ads, spawns |-> runs, probes |-> whichs,
     reads |-> reads, writes |-> writes, tmp |-> file]

\* a blank test without the strip
IsBlank_no_strip(text) == ~truthy(text)

\* not text or not text.strip()
IsBlank(text) == ~truthy(text) \/ ~truthy(strip(text))

\* a normalization that trims and keeps the letter case
NormalizeLanguage_no_lower(language) == strip(language)

\* language.lower().strip()
NormalizeLanguage(language) == strip(lower(language))

\* a cache key that leaves out the language
CacheKey_no_language(text, language) == <<<<>>, sha256(text)>>

\* the cache key of a call
CacheKey(text, language) == <<NormalizeLanguage(language), sha256(text)>>

\* the if/elif chain of lint: the adapter of a normalized language
Dispatch(language, text, w) ==
    CASE language = <<"python">> -> Some(_lint_python_pylint(text, w))
      [] language = <<"javascript">> -> Some(_lint_javascript_eslint(text, w))
      [] language = <<"c">> -> Some(_lint_c_compiler(text, FALSE, w))
      [] language = <<"cpp">> -> Some(_lint_c_compiler(text, TRUE, w))
      [] OTHER -> None

\* lint(text, language, file_path) run on cache c with marker files fs
lint(c, fs, text, language, file_path, w) ==
    IF IsBlank(text)
    THEN Returned(c, <<>>, <<>>, <<>>, <<>>, 0, 0, NoTmp)
    ELSE IF _is_ignored(fs, file_path)
    THEN Returned(c, <<>>, <<>>, <<>>, <<>>, 0, 0, NoTmp)
    ELSE LET lang == NormalizeLanguage(language)
             cache_key == CacheKey(text, language)
             cached == _cache_get(c, cache_key)
             result == Dispatch(lang, text, w)
         IN IF cached # None
            THEN Returned(c, cached[1], <<>>, <<>>, <<>>, 1, 0, NoTmp)
            ELSE IF result = None
            THEN Propagated(c, "LinterError", <<>>, <<>>, <<>>, 1, 0, NoTmp)
            ELSE IF result[1].raised
            THEN Propagated(c, result[1].exc, <<lang>>, result[1].spawns,
                            result[1].probes, 1, 0, result[1].tmp)
            ELSE Returned(_cache_set(c, cache_key, result[1].val), result[1].val,
                          <<lang>>, result[1].spawns, result[1].probes, 1, 1,
                          result[1].tmp)

\* the tool of a normalized language is installed in w: an adapter that ran
\* would find the pylint executable or the interpreter, eslint, or one of
\* the candidate compilers
ToolLocated(language, w) ==
    CASE language = <<"python">> ->
            w.run1.kind # "notfound" \/ w.run2.kind # "notfound"
      [] language = <<"javascript">> -> w.run1.kind # "notfound"
      [] language = <<"c">> -> _pick_compiler(FALSE, w) # None
      [] language = <<"cpp">> -> _pick_compiler(TRUE, w) # None
      [] OTHER -> FALSE

\* one call of lint, of which the caller notes r
LintCall(text, language, file_path, w, r) ==
    \E o \in {lint(cache, markers, text, language, file_path, w)} :
        /\ cache' = o.cache
        /\ ret' = o.ret
        /\ adapters' = o.adapters
        /\ spawns' = o.spawns
        /\ probes' = o.probes
        /\ cache_reads' = o.reads
        /\ cache_writes' = o.writes
        /\ req' = r
        /\ pre' = cache
        /\ tmp' = o.tmp
        /\ analysed' = IF o.adapters = <<>> THEN analysed
                       ELSE analysed \cup {<<NormalizeLanguage(language), text>>}
        /\ UNCHANGED markers

\* one call of lint
Lint(text, language, file_path, w) ==
    LintCall(text, language, file_path, w,
             [text |-> text, language |-> language, file_path |-> file_path])

\* one call of lint by a caller that also notes whether the tool of the
\* language was installed while the call ran
LintLocated(text, language, file_path, w) ==
    LintCall(text, language, file_path, w,
             [text |-> text, language |-> language, file_path |-> file_path,
              located |-> ToolLocated(NormalizeLanguage(language), w)])

-----------------------------------------------------------------------------
(* The callers' inputs and the outside world *)

\* source texts: empty, whitespace only, and two that differ in one character
Texts == {<<>>, <<" ", "\n">>, <<"a">>, <<"a", "\n">>}

\* language arguments: two spellings of python, javascript, an unsupported one
Languages == {<<"python">>, <<" ", "Python", "\n">>, <<"javascript">>, <<"ruby">>}

AllLanguages ==
    {<<"python">>, <<"javascript">>, <<"c">>, <<"CPP", " ">>, <<"Ruby">>, <<>>}

Supported == {<<"python">>, <<"javascript">>, <<"c">>, <<"cpp">>}

\* /p/.codeyignore holds a comment, a blank line and the pattern "a"
MarkerFiles ==
    (<<"/", "p">> :> [readable |-> TRUE,
                     lines |-> <<<<"#", "x">>, <<" ">>, <<" ", "a", "\n">>>>])

PathIgnored == <<"/", "p", "/", "s", "/", "a">>
PathKept == <<"/", "p", "/", "s", "/", "b">>
Paths == {None, Some(PathIgnored), Some(PathKept)}

\* what a tool run may do
PylintFinding ==
    Exited(4,
           JsonOut(JArr(<<JObj([type |-> JStr(<<"error">>), line |-> JNum(3),
                                column |-> JNum(0), message |-> JStr(<<"bad">>)])>>)),
           <<>>)
EslintFinding ==
    Exited(1,
           JsonOut(JArr(<<JObj([messages |->
               JArr(<<JObj([severity |-> JNum(2), line |-> JNum(2),
                            column |-> JNum(7), message |-> JStr(<<"no-undef">>)])>>)])>>)),
           <<>>)
NoModule == Exited(1, EmptyOut, <<"/usr/bin/python3:", " ", "No module named pylint", "\n">>)
BadShape == Exited(0, JsonOut(JObj([a |-> JNum(1)])), <<>>)
NotIterable == Exited(0, JsonOut(JNum(5)), <<>>)
Garbage == Exited(2, GarbageOut, <<"boom", "\n">>)
CompilerError ==
    Exited(1, EmptyOut,
           <<"tmp.c", ":", "1", ":", "7", ":", " ", "error", ":", " ", "expected ';'", "\n">>)
Crash == Exited(139, EmptyOut, <<>>)
\* a failing compiler or tool whose stderr holds no file:line:col: line
LinkerError == Exited(1, EmptyOut, <<"collect2:", " ", "ld returned 1 exit status", "\n">>)
InternalError == Exited(4, GarbageOut, <<"internal compiler error", "\n">>)
SilentGarbage == Exited(2, GarbageOut, <<" ", "\n">>)
Denied == SpawnError(<<"[Errno 13]", " ", "Permission denied">>)
Undecodable == DecodeError(0)

\* pylint items whose fields are zero, negative, missing, null, empty or
\* unrecognized
PylintOdd ==
    Exited(4,
           JsonOut(JArr(<<JObj([type |-> JStr(<<"Fatal">>), line |-> JNum(0),
                                column |-> JNum(-3), message |-> JStr(<<>>)]),
                          JObj([type |-> JStr(<<"hint">>), line |-> JNull]),
                          JObj([message |-> JNull, column |-> JNum(12)]),
                          JObj([type |-> JStr(<<"Info">>), line |-> JStr(<<"3">>)])>>)),
           <<>>)
\* a pylint item whose message is whitespace only
PylintBlankMessage ==
    Exited(4,
           JsonOut(JArr(<<JObj([type |-> JStr(<<"error">>), line |-> JNum(1),
                                column |-> JNum(1), message |-> JStr(<<" ", "\n">>)])>>)),
           <<>>)
\* eslint messages whose fields are zero, negative, missing or null
EslintOdd ==
    Exited(1,
           JsonOut(JArr(<<JObj([messages |->
               JArr(<<JObj([severity |-> JNum(3), line |-> JNum(0), column |-> JNum(-1)]),
                      JObj([line |-> JNull, message |-> JStr(<<>>)])>>)]),
                          JObj([filePath |-> JStr(<<"tmp.js">>)])>>)),
           <<>>)

\* a pylint batch of four items: the second is no object, the third has a
\* line that is no number
PylintMixed ==
    Exited(4,
           JsonOut(JArr(<<JObj([type |-> JStr(<<"error">>), line |-> JNum(3),
                                column |-> JNum(2), message |-> JStr(<<"first">>)]),
                          JStr(<<"x">>),
                          JObj([type |-> JStr(<<"warning">>), line |-> JStr(<<"x">>),
                                column |-> JNum(1), message |-> JStr(<<"third">>)]),
                          JObj([type |-> JStr(<<"warning">>), line |-> JNum(7),
                                column |-> JNum(1), message |-> JStr(<<"last">>)])>>)),
           <<>>)
\* an eslint batch of four messages with the same two malformed ones
EslintMixed ==
    Exited(1,
           JsonOut(JArr(<<JObj([messages |->
               JArr(<<JObj([severity |-> JNum(2), line |-> JNum(3),
                            column |-> JNum(2), message |-> JStr(<<"first">>)]),
                      JStr(<<"x">>),
                      JObj([severity |-> JNum(1), line |-> JStr(<<"x">>),
                            column |-> JNum(1), message |-> JStr(<<"third">>)]),
                      JObj([severity |-> JNum(1), line |-> JNum(7),
                            column |-> JNum(1), message |-> JStr(<<"last">>)])>>)])>>)),
           <<>>)

\* a compiler that exits with 2 after a fatal error it reported with its place
CompilerFatal ==
    Exited(2, EmptyOut,
           <<"tmp.c", ":", "1", ":", "2", ":", " ", "fatal error", ":", " ",
             "x.h: No such file", "\n", "compilation terminated.", "\n">>)

\* tools that print JSON on stdout and a text on stderr: exit code 4 with no
\* item, exit code 3 with one item that both adapters read, exit code 3 with
\* a stderr of whitespace only
ToolWarned == Exited(4, JsonOut(JArr(<<>>)), <<"deprecated option", "\n">>)
ToolFailed ==
    Exited(3,
           JsonOut(JArr(<<JObj([type |-> JStr(<<"error">>), line |-> JNum(2),
                                column |-> JNum(1), message |-> JStr(<<"bad">>),
                                messages |->
                                    JArr(<<JObj([severity |-> JNum(2), line |-> JNum(2),
                                                 column |-> JNum(1),
                                                 message |-> JStr(<<"bad">>)])>>)])>>)),
           <<" ", "usage error", "\n">>)
ToolFailedSilently == Exited(3, JsonOut(JArr(<<>>)), <<" ", "\n">>)

\* tmp_ok: the temporary file is created and written; tmp_created: it is
\* created (a write may still fail); unlink_ok: os.unlink succeeds
\* tmp_dir: the directory of the temporary files
World(tmp_ok, which, run1, run2) ==
    [tmp_ok |-> tmp_ok, which |-> which, run1 |-> run1, run2 |-> run2,
     tmp_created |-> tmp_ok, unlink_ok |-> TRUE, tmp_dir |-> <<"/tmp">>]

\* TMPDIR names another directory
TmpDir(w, dir) == [w EXCEPT !.tmp_dir = dir]

\* a directory whose name holds the words "Not Found"
NotFoundDir == <<"/srv/", "Not Found">>

\* the write into the created file fails (the disk is full)
WriteFails(w) == [w EXCEPT !.tmp_ok = FALSE, !.tmp_created = TRUE]

\* os.unlink fails (the file is gone or is locked)
UnlinkFails(w) == [w EXCEPT !.unlink_ok = FALSE]

AllCompilers == {"clang", "gcc", "clang++", "g++"}

\* the worlds of the dispatcher's specification: the tools run, or are missing
Worlds ==
    {World(TRUE, AllCompilers, o, NoModule) : o \in {PylintFinding, Missing}}

\* the worlds of the adapters' specification
ToolWorlds ==
    {World(TRUE, {}, Missing, o) : o \in {Missing, NoModule, Undecodable}}
    \cup {World(TRUE, wh, o, NoModule) :
            wh \in {{"gcc", "g++"}, AllCompilers},
            o \in {TimedOut, Denied, PylintFinding, EslintFinding, BadShape,
                   NotIterable, Garbage, CompilerError, Crash}}
    \cup {World(TRUE, AllCompilers, o, NoModule) :
            o \in {PylintOdd, PylintBlankMessage, EslintOdd, Undecodable,
                   LinkerError, InternalError, SilentGarbage}}
    \cup {World(FALSE, AllCompilers, Crash, Crash)}
    \cup {WriteFails(World(TRUE, AllCompilers, Crash, Crash)),
          UnlinkFails(World(TRUE, AllCompilers, TimedOut, Crash)),
          UnlinkFails(World(TRUE, AllCompilers, BadShape, Crash))}

\* the worlds that differ in what the tool prints and how it exits: batches
\* with a malformed item, exit codes in and outside the accepted sets with
\* and without stderr, compilers that are missing, and a temporary
\* directory whose name holds the words "Not Found"
OutputWorlds ==
    {World(TRUE, {}, Missing, o) : o \in {Missing, PylintFinding}}
    \cup {World(TRUE, wh, o, NoModule) :
            wh \in {{"gcc", "g++"}, AllCompilers},
            o \in {PylintFinding, EslintFinding, CompilerError, Crash}}
    \cup {World(TRUE, AllCompilers, o, NoModule) :
            o \in {TimedOut, PylintOdd, EslintOdd, LinkerError, SilentGarbage,
                   PylintMixed, EslintMixed, ToolWarned, ToolFailed,
                   ToolFailedSilently, CompilerFatal}}
    \cup {TmpDir(World(TRUE, AllCompilers, TimedOut, PylintFinding), NotFoundDir),
          UnlinkFails(World(TRUE, {}, Crash, Crash))}

-----------------------------------------------------------------------------
(* lint step by step, as one of several threads runs it.  CPython runs one  *)
(* bytecode at a time and may switch threads between any two: a step below *)
(* is one access to _CACHE, one iteration of the ancestor walk, or the end *)
(* of one spawned process.  threads[t] is the frame of thread t's call.     *)

MaxThreads == 2
Threads == 1..MaxThreads

\* the arguments of a call, the world w it meets, and result: what the
\* if/elif chain of lint does with these arguments in that world
ThreadCall(text, language, file_path, w) ==
    [text |-> text, language |-> language, file_path |-> file_path, w |-> w,
     result |-> Dispatch(NormalizeLanguage(language), text, w)]

NoCallArgs == ThreadCall(<<>>, <<>>, None, World(TRUE, {}, Missing, Missing))

\* a thread that is not inside lint; ret is how its last call ended
IdleThread ==
    [pc |-> "idle", call |-> NoCallArgs, current |-> <<>>, prev |-> None,
     patterns |-> <<>>, waiting |-> 0, size |-> 0, first |-> None,
     ret |-> [kind |-> "none", val |-> <<>>, exc |-> ""]]

\* the frame of a call that ended
Ended(f, kind, val, exc) ==
    [IdleThread EXCEPT !.call = f.call, !.ret = [kind |-> kind, val |-> val, exc |-> exc]]

\* what the adapter of the frame's call returns
AdapterOf(f) == f.call.result

\* lint is entered: the blank test, and the start of _is_ignored
T_Call(t, call) ==
    /\ threads[t].pc = "idle"
    /\ threads' = [threads EXCEPT ![t] =
          IF IsBlank(call.text)
          THEN Ended([IdleThread EXCEPT !.call = call], "list", <<>>, "")
          ELSE IF call.file_path = None \/ ~truthy(call.file_path[1])
          THEN [IdleThread EXCEPT !.pc = "get", !.call = call]
          ELSE [IdleThread EXCEPT !.pc = "walk", !.call = call,
                   !.current = abspath(dirname(abspath(call.file_path[1])))]]
    /\ UNCHANGED <<linter_vars, editor_vars>>

\* one iteration of the while loop of _load_ignore_patterns
T_WalkStep(t) ==
    LET f == threads[t] IN
    /\ f.pc = "walk"
    /\ f.current # <<>> /\ Some(f.current) # f.prev
    /\ threads' = [threads EXCEPT ![t] =
          [f EXCEPT !.patterns =
                        f.patterns \o (IF f.current \in DOMAIN markers
                                          /\ markers[f.current].readable
                                       THEN MarkerPatterns(f.current,
                                                           markers[f.current].lines)
                                       ELSE <<>>),
                    !.prev = Some(f.current),
                    !.current = dirname(f.current)]]
    /\ UNCHANGED <<linter_vars, editor_vars>>

\* the while loop is left; the for loop of _is_ignored decides
T_WalkEnd(t) ==
    LET f == threads[t] IN
    /\ f.pc = "walk"
    /\ ~(f.current # <<>> /\ Some(f.current) # f.prev)
    /\ threads' = [threads EXCEPT ![t] =
          IF \E i \in 1..Len(f.patterns) :
                 RuleMatches(abspath(f.call.file_path[1]), f.patterns[i])
          THEN Ended(f, "list", <<>>, "")
          ELSE [IdleThread EXCEPT !.pc = "get", !.call = f.call]]
    /\ UNCHANGED <<linter_vars, editor_vars>>

\* _cache_get, and on a miss the if/elif chain up to the adapter's first spawn
T_Get(t) ==
    LET f == threads[t]
        cached == _cache_get(cache, CacheKey(f.call.text, f.call.language))
    IN
    /\ f.pc = "get"
    /\ threads' = [threads EXCEPT ![t] =
          IF cached # None THEN Ended(f, "list", cached[1], "")
          ELSE IF AdapterOf(f) = None THEN Ended(f, "raise", <<>>, "LinterError")
          ELSE [f EXCEPT !.pc = "run", !.waiting = Len(AdapterOf(f)[1].spawns)]]
    /\ UNCHANGED <<linter_vars, editor_vars>>

\* subprocess.run returns: the process exited, or the timeout cut it off
T_ProcessEnds(t) ==
    LET f == threads[t] IN
    /\ f.pc = "run" /\ f.waiting > 0
    /\ threads' = [threads EXCEPT ![t] = [f EXCEPT !.waiting = f.waiting - 1]]
    /\ UNCHANGED <<linter_vars, editor_vars>>

\* the adapter returns its list, or raises
T_AdapterEnds(t) ==
    LET f == threads[t] IN
    /\ f.pc = "run" /\ f.waiting = 0
    /\ threads' = [threads EXCEPT ![t] =
          IF AdapterOf(f)[1].raised THEN Ended(f, "raise", <<>>, AdapterOf(f)[1].exc)
          ELSE [f EXCEPT !.pc = "set_len"]]
    /\ UNCHANGED <<linter_vars, editor_vars>>

\* _cache_set: len(_CACHE) >= _CACHE_MAX
T_SetLen(t) ==
    LET f == threads[t] IN
    /\ f.pc = "set_len"
    /\ threads' = [threads EXCEPT ![t] =
          [f EXCEPT !.pc = IF Len(cache) >= _CACHE_MAX THEN "set_iter" ELSE "set_store"]]
    /\ UNCHANGED <<linter_vars, editor_vars>>

\* _cache_set: iter(_CACHE); the iterator remembers the dict's size
T_SetIter(t) ==
    LET f == threads[t] IN
    /\ f.pc = "set_iter"
    /\ threads' = [threads EXCEPT ![t] = [f EXCEPT !.pc = "set_next", !.size = Len(cache)]]
    /\ UNCHANGED <<linter_vars, editor_vars>>

\* _cache_set: next(...): RuntimeError if the dict changed size since iter
T_SetNext(t) ==
    LET f == threads[t] IN
    /\ f.pc = "set_next"
    /\ threads' = [threads EXCEPT ![t] =
          IF Len(cache) # f.size THEN Ended(f, "raise", <<>>, "RuntimeError")
          ELSE [f EXCEPT !.pc = "set_pop", !.first = Some(cache[1].key)]]
    /\ UNCHANGED <<linter_vars, editor_vars>>

\* _cache_set: _CACHE.pop(key): KeyError if the key is gone
T_SetPop(t) ==
    LET f == threads[t] IN
    /\ f.pc = "set_pop"
    /\ IF HasKey(cache, f.first[1])
       THEN /\ cache' = SelectSeq(cache, LAMBDA e : e.key # f.first[1])
            /\ threads' = [threads EXCEPT ![t] = [f EXCEPT !.pc = "set_store"]]
       ELSE /\ cache' = cache
            /\ threads' = [threads EXCEPT ![t] = Ended(f, "raise", <<>>, "KeyError")]
    /\ UNCHANGED <<markers, req, ret, adapters, spawns, cache_reads, cache_writes,
                   probes, pre, issued, tmp, analysed, editor_vars>>

\* _cache_set: _CACHE[key] = value, and lint returns the result
T_SetStore(t) ==
    LET f == threads[t] IN
    /\ f.pc = "set_store"
    /\ cache' = DictSet(cache, CacheKey(f.call.text, f.call.language), AdapterOf(f)[1].val)
    /\ threads' = [threads EXCEPT ![t] = Ended(f, "list", AdapterOf(f)[1].val, "")]
    /\ UNCHANGED <<markers, req, ret, adapters, spawns, cache_reads, cache_writes,
                   probes, pre, issued, tmp, analysed, editor_vars>>

\* a step of thread t inside lint
T_Step(t) ==
    \/ T_WalkStep(t) \/ T_WalkEnd(t) \/ T_Get(t) \/ T_ProcessEnds(t) \/ T_AdapterEnds(t)
    \/ T_SetLen(t) \/ T_SetIter(t) \/ T_SetNext(t) \/ T_SetPop(t) \/ T_SetStore(t)

-----------------------------------------------------------------------------
(* Specifications *)

NoCall == [text |-> <<>>, language |-> <<>>, file_path |-> None]
NoReturn == [kind |-> "none", val |-> <<>>, exc |-> ""]

\* the process has started: the cache is empty and lint was not called yet
Init ==
    /\ cache = <<>>
    /\ markers = MarkerFiles
    /\ req = NoCall
    /\ ret = NoReturn
    /\ adapters = <<>>
    /\ spawns = <<>>
    /\ cache_reads = 0
    /\ cache_writes = 0
    /\ probes = <<>>
    /\ pre = <<>>
    /\ issued = 0
    /\ tmp = NoTmp
    /\ threads = [t \in Threads |-> IdleThread]
    /\ analysed = {}
    /\ _lint_worker = None
    /\ _lint_pending = None
    /\ _is_closing = FALSE
    /\ _pending_close = FALSE
    /\ workers = <<>>
    /\ events = <<>>
    /\ requests = 0

\* the callers stop asking for new analyses once MaxEntries (in the
\* adapters' specification MaxToolEntries) results are cached
MaxEntries == 2
MaxToolEntries == 1

\* the dispatcher: every text, language spelling and path, in any order
Next ==
    \E text \in Texts, language \in Languages, file_path \in Paths, w \in Worlds :
        /\ Lint(text, language, file_path, w)
        /\ Len(cache') <= MaxEntries
        /\ UNCHANGED <<issued, threads, editor_vars>>

Spec == Init /\ [][Next]_vars

\* the spellings that reach an adapter
ToolLanguages == {l \in AllLanguages : NormalizeLanguage(l) \in Supported}

\* the adapters: one text under every language that has one, every tool
\* outcome
NextTools ==
    \E language \in ToolLanguages, w \in ToolWorlds :
        /\ Lint(<<"a">>, language, None, w)
        /\ Len(cache') <= MaxToolEntries
        /\ UNCHANGED <<issued, threads, editor_vars>>

SpecTools == Init /\ [][NextTools]_vars

\* the adapters' reading of what a tool printed: one text under every
\* language that has an adapter, every shape of output and exit code
NextOutputs ==
    \E language \in ToolLanguages, w \in OutputWorlds :
        /\ LintLocated(<<"a">>, language, None, w)
        /\ Len(cache') <= MaxToolEntries
        /\ UNCHANGED <<issued, threads, editor_vars>>

SpecOutputs == Init /\ [][NextOutputs]_vars

\* Filling the cache: the caller lints one never-seen-before text after the
\* other (an editor buffer under edit), and may lint again the text it
\* linted first and the one it issued last.  The n-th new text is Fresh(n);
\* its language and what its tool does are functions of n, as for a
\* deterministic tool.
MaxFresh == 131

FillAtoms == <<"a", "b", "c", "d", "e", "f", "g", "h", "i", "j", "k", "l">>

Fresh(n) ==
    <<FillAtoms[(n \div Len(FillAtoms)) + 1], FillAtoms[(n % Len(FillAtoms)) + 1]>>

FillLanguages == <<<<"python">>, <<"javascript">>, <<"c">>, <<"cpp">>>>
FillLanguage(n) == FillLanguages[(n % Len(FillLanguages)) + 1]

FillOutcomes == <<PylintFinding, CompilerError, Missing>>
FillWorld(n) ==
    World(TRUE, AllCompilers, FillOutcomes[(n % Len(FillOutcomes)) + 1], NoModule)

\* the first text is also linted as javascript, and under a language the
\* linter does not support
FillLanguagesOf(n) ==
    IF n = 0 THEN {FillLanguage(n), <<"javascript">>, <<"ruby">>} ELSE {FillLanguage(n)}

NextFill ==
    \E n \in {issued, issued - 1, 0} \cap (0..(MaxFresh - 1)) :
        \E language \in FillLanguagesOf(n) :
            /\ n = issued => language = FillLanguage(n)
            /\ Lint(Fresh(n), language, None, FillWorld(n))
            /\ issued' = IF n = issued THEN issued + 1 ELSE issued
            /\ UNCHANGED <<threads, editor_vars>>

SpecFill == Init /\ [][NextFill]_vars

\* Threads: the cache as the first n calls of the filling leave it (n below
\* the capacity: every call is a miss and nothing is evicted)
Filled(n) ==
    [i \in 1..n |->
        [key |-> CacheKey(Fresh(i - 1), FillLanguage(i - 1)),
         value |-> Dispatch(FillLanguage(i - 1), Fresh(i - 1), FillWorld(i - 1))[1].val]]

\* one entry short of the capacity
Prefilled == Filled(_CACHE_MAX - 1)

\* the calls the threads make: texts that are in no cache entry yet, a
\* blank text, an unsupported language, both paths; each text and language
\* has one tool outcome, as for a deterministic tool
ThreadCalls ==
    {ThreadCall(<<"a">>, <<"python">>, None,
                World(TRUE, AllCompilers, PylintFinding, NoModule)),
     ThreadCall(<<"b">>, <<"python">>, Some(PathKept),
                World(TRUE, AllCompilers, Missing, NoModule)),
     ThreadCall(<<"a">>, <<"javascript">>, None,
                World(TRUE, AllCompilers, EslintFinding, NoModule)),
     ThreadCall(<<"b">>, <<"javascript">>, None,
                World(TRUE, AllCompilers, BadShape, NoModule)),
     ThreadCall(<<"a">>, <<"c">>, Some(PathIgnored),
                World(TRUE, AllCompilers, TimedOut, NoModule)),
     ThreadCall(<<" ", "\n">>, <<"python">>, None,
                World(TRUE, AllCompilers, PylintFinding, NoModule)),
     ThreadCall(<<"a">>, <<"ruby">>, None,
                World(TRUE, AllCompilers, PylintFinding, NoModule))}

InitThreads ==
    /\ cache = Prefilled
    /\ markers = MarkerFiles
    /\ req = NoCall
    /\ ret = NoReturn
    /\ adapters = <<>>
    /\ spawns = <<>>
    /\ cache_reads = 0
    /\ cache_writes = 0
    /\ probes = <<>>
    /\ pre = Prefilled
    /\ issued = _CACHE_MAX - 1
    /\ tmp = NoTmp
    /\ threads = [t \in Threads |-> IdleThread]
    /\ analysed = {}
    /\ _lint_worker = None
    /\ _lint_pending = None
    /\ _is_closing = FALSE
    /\ _pending_close = FALSE
    /\ workers = <<>>
    /\ events = <<>>
    /\ requests = 0

\* any thread calls lint, or goes one step on inside it
NextThreads ==
    \E t \in Threads :
        \/ \E call \in ThreadCalls : T_Call(t, call)
        \/ T_WalkStep(t)
        \/ T_WalkEnd(t)
        \/ T_Get(t)
        \/ T_ProcessEnds(t)
        \/ T_AdapterEnds(t)
        \/ T_SetLen(t)
        \/ T_SetIter(t)
        \/ T_SetNext(t)
        \/ T_SetPop(t)
        \/ T_SetStore(t)

SpecThreads == InitThreads /\ [][NextThreads]_vars

\* one thread calls lint again and again
NextCall ==
    \/ \E call \in ThreadCalls : T_Call(1, call)
    \/ T_WalkStep(1)
    \/ T_WalkEnd(1)
    \/ T_Get(1)
    \/ T_ProcessEnds(1)
    \/ T_AdapterEnds(1)
    \/ T_SetLen(1)
    \/ T_SetIter(1)
    \/ T_SetNext(1)
    \/ T_SetPop(1)
    \/ T_SetStore(1)

\* a thread inside lint goes on: the interpreter runs it, and a spawned
\* process exits or is cut off by the timeout of subprocess.run
SpecCall == InitThreads /\ [][NextCall]_vars /\ WF_vars(T_Step(1))

\* Severities: pylint reports one item per text, and the i-th text's item
\* has the type SeverityCases[i]: every word of the vocabulary in lower
\* case and in another case, words outside it, the empty string, null, zero
\* and no type at all
Absent == [t |-> "absent"]

SeverityCases ==
    <<JStr(<<"fatal">>), JStr(<<"Fatal">>), JStr(<<"error">>), JStr(<<"ERROR">>),
      JStr(<<"warning">>), JStr(<<"Warning">>), JStr(<<"refactor">>), JStr(<<"Refactor">>),
      JStr(<<"convention">>), JStr(<<"CONVENTION">>),
      JStr(<<"info">>), JStr(<<"Info">>), JStr(<<"information">>), JStr(<<"Information">>),
      JStr(<<"hint">>), JStr(<<"Hint">>), JStr(<<"fatal error">>), JStr(<<" ", "error">>),
      JStr(<<>>), JNull, JNum(0), Absent>>

\* pylint printed one item whose type is raw
PylintTyped(raw) ==
    Exited(4,
           JsonOut(JArr(<<IF raw = Absent
                          THEN JObj([line |-> JNum(2), column |-> JNum(1),
                                     message |-> JStr(<<"m">>)])
                          ELSE JObj([type |-> raw, line |-> JNum(2), column |-> JNum(1),
                                     message |-> JStr(<<"m">>)])>>)),
           <<>>)

SeverityWorld(i) == World(TRUE, AllCompilers, PylintTyped(SeverityCases[i]), NoModule)

NextSeverity ==
    \E i \in 1..Len(SeverityCases) :
        /\ Lint(Fresh(i), <<"python">>, None, SeverityWorld(i))
        /\ Len(cache') <= MaxEntries
        /\ UNCHANGED <<issued, threads, editor_vars>>

SpecSeverity == Init /\ [][NextSeverity]_vars

\* The ignore rules: the directories above the linted files hold any
\* combination of marker files, and the caller lints one text with no path
\* and with two paths in /p/s.
IgnoreDirs == {<<"/">>, <<"/", "p">>, <<"/", "p", "/", "s">>}

\* no marker file in a directory
NoMarker == [readable |-> FALSE, lines |-> <<>>]

\* the marker files a directory may hold: a rule for the name "a", a
\* directory rule for s/, a glob for everything below p, a comment and a
\* blank line only, and a file that cannot be opened
MarkerChoices ==
    {[readable |-> TRUE, lines |-> <<<<" ", "a", "\n">>>>],
     [readable |-> TRUE, lines |-> <<<<"#", "a">>, <<"s", "/", "\n">>>>],
     [readable |-> TRUE, lines |-> <<<<"p", "/", "*">>>>],
     [readable |-> TRUE, lines |-> <<<<"#", "a">>, <<" ", "\n">>>>],
     [readable |-> FALSE, lines |-> <<<<"a">>>>]}

\* the marker files on disk when every directory d holds choice[d]
MarkersOf(choice) ==
    [d \in {e \in IgnoreDirs : choice[e] # NoMarker} |-> choice[d]]

IgnoreWorld == World(TRUE, AllCompilers, PylintFinding, NoModule)

InitIgnore ==
    /\ markers \in {MarkersOf(choice) :
                        choice \in [IgnoreDirs -> MarkerChoices \cup {NoMarker}]}
    /\ cache = <<>>
    /\ req = NoCall
    /\ ret = NoReturn
    /\ adapters = <<>>
    /\ spawns = <<>>
    /\ cache_reads = 0
    /\ cache_writes = 0
    /\ probes = <<>>
    /\ pre = <<>>
    /\ issued = 0
    /\ tmp = NoTmp
    /\ threads = [t \in Threads |-> IdleThread]
    /\ analysed = {}
    /\ _lint_worker = None
    /\ _lint_pending = None
    /\ _is_closing = FALSE
    /\ _pending_close = FALSE
    /\ workers = <<>>
    /\ events = <<>>
    /\ requests = 0

NextIgnore ==
    \E file_path \in Paths :
        /\ Lint(<<"a">>, <<"python">>, file_path, IgnoreWorld)
        /\ UNCHANGED <<issued, threads, editor_vars>>

SpecIgnore == InitIgnore /\ [][NextIgnore]_vars

-----------------------------------------------------------------------------
(* The editor (src/Codey.py): run_lint, the LintWorker threads and the      *)
(* slots their signals are connected to.  A worker's signals are queued to *)
(* the main thread, which handles them one at a time, in the order of      *)
(* their emission.  The n-th run_lint call lints the text Fresh(n).         *)

\* LintWorker(text, lang, ...) after start(): state is "started" (run has
\* not called lint yet), "linted" (lint returned or raised), "returning" (run
\* is past its emit) or "finished" (the thread ended, finished was emitted)
NewWorker(n, lang) ==
    [state |-> "started", n |-> n, lang |-> lang, interrupted |-> FALSE,
     outcome |-> "none"]

\* QThread.isRunning()
isRunning(i) == workers[i].state # "finished"

\* the tools the editor's linter meets
EditorWorld == World(TRUE, AllCompilers, PylintFinding, NoModule)

\* CodeyApp.run_lint for the n-th request, in a tab of language lang
run_lint(n, lang) ==
    IF _is_closing
    THEN UNCHANGED <<_lint_worker, _lint_pending, workers>>
    ELSE IF _lint_worker # None /\ isRunning(_lint_worker[1])
    THEN /\ _lint_pending' = Some([n |-> n, lang |-> lang])
         /\ UNCHANGED <<_lint_worker, workers>>
    ELSE /\ workers' = Append(workers, NewWorker(n, lang))
         /\ _lint_worker' = Some(Len(workers) + 1)
         /\ UNCHANGED _lint_pending

\* the user edits the buffer (the debounce timer fires) or asks for a lint
E_RunLint(lang) ==
    /\ requests' = requests + 1
    /\ run_lint(requests + 1, lang)
    /\ UNCHANGED <<linter_vars, threads, _is_closing, _pending_close, events>>

\* LintWorker.run up to the call of lint: an interrupted worker returns
\* at once
W_Interrupted(i) ==
    /\ i \in 1..Len(workers)
    /\ workers[i].state = "started" /\ workers[i].interrupted
    /\ workers' = [workers EXCEPT ![i].state = "returning"]
    /\ UNCHANGED <<linter_vars, threads, _lint_worker, _lint_pending, _is_closing,
                   _pending_close, events, requests>>

\* LintWorker.run: CodeyLinter.lint(text, language, file_path) returns a
\* list or raises
W_Lint(i) ==
    /\ i \in 1..Len(workers)
    /\ workers[i].state = "started" /\ ~workers[i].interrupted
    /\ Lint(Fresh(workers[i].n), workers[i].lang, None, EditorWorld)
    /\ workers' = [workers EXCEPT ![i].state = "linted",
                                  ![i].outcome = IF ret'.kind = "list" THEN "result"
                                                 ELSE "error"]
    /\ UNCHANGED <<issued, threads, _lint_worker, _lint_pending, _is_closing,
                   _pending_close, events, requests>>

\* LintWorker.run: result.emit or error.emit; a worker interrupted after
\* lint returned its list emits nothing
W_Emit(i) ==
    /\ i \in 1..Len(workers)
    /\ workers[i].state = "linted"
    /\ workers' = [workers EXCEPT ![i].state = "returning"]
    /\ events' = IF workers[i].outcome = "result" /\ workers[i].interrupted
                 THEN events
                 ELSE Append(events, [sig |-> workers[i].outcome, worker |-> i])
    /\ UNCHANGED <<linter_vars, threads, _lint_worker, _lint_pending, _is_closing,
                   _pending_close, requests>>

\* run returned: QThread emits finished and the thread ends
W_Finish(i) ==
    /\ i \in 1..Len(workers)
    /\ workers[i].state = "returning"
    /\ workers' = [workers EXCEPT ![i].state = "finished"]
    /\ events' = Append(events, [sig |-> "finished", worker |-> i])
    /\ UNCHANGED <<linter_vars, threads, _lint_worker, _lint_pending, _is_closing,
                   _pending_close, requests>>

\* CodeyApp._on_lint_result
_on_lint_result ==
    IF _lint_pending = None
    THEN UNCHANGED <<_lint_worker, _lint_pending, workers>>
    ELSE IF _is_closing
    THEN /\ _lint_pending' = None
         /\ UNCHANGED <<_lint_worker, workers>>
    ELSE /\ _lint_pending' = None
         /\ workers' = Append(workers, NewWorker(_lint_pending[1].n, _lint_pending[1].lang))
         /\ _lint_worker' = Some(Len(workers) + 1)

\* CodeyApp._on_lint_error: a message box and the status line
_on_lint_error == UNCHANGED <<_lint_worker, _lint_pending, workers>>

\* CodeyApp._on_lint_finished; its close() finds no worker and no thread to stop
_on_lint_finished ==
    /\ _lint_worker' = None
    /\ UNCHANGED <<_lint_pending, workers>>

\* the main thread handles the oldest queued signal
E_Result ==
    /\ events # <<>> /\ Head(events).sig = "result"
    /\ events' = Tail(events)
    /\ _on_lint_result
    /\ UNCHANGED <<linter_vars, threads, _is_closing, _pending_close, requests>>

E_Error ==
    /\ events # <<>> /\ Head(events).sig = "error"
    /\ events' = Tail(events)
    /\ _on_lint_error
    /\ UNCHANGED <<linter_vars, threads, _is_closing, _pending_close, requests>>

E_Finished ==
    /\ events # <<>> /\ Head(events).sig = "finished"
    /\ events' = Tail(events)
    /\ _on_lint_finished
    /\ _pending_close' = FALSE
    /\ UNCHANGED <<linter_vars, threads, _is_closing, requests>>

\* closeEvent and _shutdown_threads: the worker in _lint_worker is asked to
\* stop, waited for and terminated; stopped tells whether it ended within
\* the waits
E_Close(stopped) ==
    /\ ~_is_closing
    /\ _is_closing' = TRUE
    /\ IF _lint_worker # None /\ isRunning(_lint_worker[1])
       THEN IF stopped
            THEN /\ workers' = [workers EXCEPT ![_lint_worker[1]].state = "finished",
                                               ![_lint_worker[1]].interrupted = TRUE]
                 /\ events' = Append(events, [sig |-> "finished", worker |-> _lint_worker[1]])
                 /\ _lint_worker' = None
                 /\ UNCHANGED _pending_close
            ELSE /\ workers' = [workers EXCEPT ![_lint_worker[1]].interrupted = TRUE]
                 /\ _pending_close' = TRUE
                 /\ UNCHANGED <<_lint_worker, events>>
       ELSE UNCHANGED <<_lint_worker, workers, events, _pending_close>>
    /\ UNCHANGED <<linter_vars, threads, _lint_pending, requests>>

\* The editor: the user asks for at most MaxRequests lints, in python and in
\* plain-text tabs, and may close the window
MaxRequests == 3
EditorLanguages == {<<"python">>, <<"text">>}

NextEditor ==
    \/ \E lang \in EditorLanguages : requests < MaxRequests /\ E_RunLint(lang)
    \/ \E i \in 1..MaxRequests : W_Interrupted(i)
    \/ \E i \in 1..MaxRequests : W_Lint(i)
    \/ \E i \in 1..MaxRequests : W_Emit(i)
    \/ \E i \in 1..MaxRequests : W_Finish(i)
    \/ E_Result
    \/ E_Error
    \/ E_Finished
    \/ \E stopped \in BOOLEAN : E_Close(stopped)

SpecEditor == Init /\ [][NextEditor]_vars

\* a worker past its lint call emits and ends, and the main thread's event
\* loop handles every queued signal; the user need not do anything
EditorProgress ==
    \/ \E i \in 1..MaxRequests : W_Interrupted(i) \/ W_Emit(i) \/ W_Finish(i)
    \/ E_Result
    \/ E_Error
    \/ E_Finished

\* worker i is not before the end of its lint call
LintEnded(i) == ~(i \in 1..Len(workers) /\ workers[i].state = "started")

\* the progress above, and every lint call of a worker ends (a worker never
\* goes back to "started", so this is weak fairness of W_Lint)
SpecEditorFair ==
    /\ SpecEditor
    /\ WF_vars(EditorProgress)
    /\ \A i \in 1..MaxRequests : []<>LintEnded(i)

-----------------------------------------------------------------------------
(* Properties *)

\* lint has been called at least once
Called == ret.kind # "none"

\* the most recent call's language, trimmed and lower-cased, and its cache key
ReqLanguage == NormalizeLanguage(req.language)
ReqKey == CacheKey(req.text, req.language)

\* the most recent call's text is empty or whitespace only
ReqBlank == \A i \in 1..Len(req.text) : req.text[i] \in Whitespace

\* the most recent call's path is the one the rule "a" of /p/.codeyignore matches
ReqIgnored == req.file_path = Some(PathIgnored)

\* the most recent call returned this list
ReturnedList(val) == ret.kind = "list" /\ ret.val = val

\* C1: a call whose language, trimmed and lower-cased, is none of python,
\* javascript, c, cpp raises LinterError and returns no list, whatever the
\* text, the path and the cache are.
C1_UnsupportedAlwaysRaises ==
    (Called /\ ReqLanguage \notin Supported)
        => (ret.kind = "raise" /\ ret.exc = "LinterError")

\* C2: a call with a supported language returns a list whatever the tool
\* does; no adapter raises past its boundary.
C2_SupportedNeverRaises ==
    (Called /\ ReqLanguage \in Supported) => ret.kind = "list"

\* the most recent call invoked an adapter whose tool could not be located:
\* pylint not found and the interpreter either not found or without the
\* pylint module; eslint not found; no candidate compiler found
ToolUnavailable ==
    \/ /\ adapters = <<<<"python">>>>
       /\ Len(spawns) = 2
       /\ spawns[1].o = Missing
       /\ spawns[2].o \in {Missing, NoModule}
    \/ /\ adapters = <<<<"javascript">>>>
       /\ Len(spawns) = 1
       /\ spawns[1].o = Missing
    \/ /\ adapters \in {<<<<"c">>>>, <<<<"cpp">>>>}
       /\ Len(probes) = 2
       /\ \A i \in 1..2 : ~probes[i].found

\* C3: when the language's tool cannot be located, lint returns exactly one
\* diagnostic, of severity error.
C3_MissingToolOneError ==
    ToolUnavailable
        => (ret.kind = "list" /\ Len(ret.val) = 1 /\ ret.val[1].severity = "error")

\* C4: the cache never holds more than 128 entries.
C4_CacheBounded == Len(cache) <= _CACHE_MAX

\* an insert into a cache that held 128 entries
C4_Witness ==
    cache_writes = 1 /\ Len(pre) = _CACHE_MAX /\ Len(cache) = _CACHE_MAX /\ cache # pre

\* C5: right after an insert the inserted key maps to the inserted value,
\* and a call that repeats a cache-miss call (same text, same language) is
\* a hit that returns the same list.
C5_InsertedIsRetrievable ==
    [][/\ cache_writes' = 1
          => _cache_get(cache', CacheKey(req'.text, req'.language)) = Some(ret'.val)
       /\ (cache_writes = 1 /\ req'.text = req.text
           /\ NormalizeLanguage(req'.language) = ReqLanguage
           /\ req'.file_path = req.file_path)
          => (cache_reads' = 1 /\ cache_writes' = 0 /\ adapters' = <<>>
              /\ ret' = ret)]_vars

\* the repeat of a call that inserted into a full cache hits the newest entry
C5_Witness ==
    /\ cache_reads = 1 /\ cache_writes = 0 /\ ret.kind = "list"
    /\ Len(cache) = _CACHE_MAX
    /\ issued > _CACHE_MAX
    /\ cache[Len(cache)].key = ReqKey
    /\ cache[Len(cache)].value = ret.val

\* the (language, hash) pair of a call r
KeyOf(r) == <<NormalizeLanguage(r.language), sha256(r.text)>>

\* text t is empty or whitespace only
BlankText(t) == \A i \in 1..Len(t) : t[i] \in Whitespace

\* call r can reach the cache: its text is not blank, its language is
\* supported and its path is not the ignored one
Reaches(r) ==
    /\ ~BlankText(r.text)
    /\ NormalizeLanguage(r.language) \in Supported
    /\ r.file_path # Some(PathIgnored)

\* C6: a call that returned a list, repeated at once with the same text and
\* language (paths not ignored), returns an equal list, invokes no adapter,
\* spawns nothing and leaves the cache as it is.
C6_RepeatIsHit ==
    [][(/\ ret.kind = "list" /\ truthy(req.text) /\ ReqLanguage \in Supported
        /\ ~ReqIgnored
        /\ req'.text = req.text /\ req'.language = req.language
        /\ req'.file_path # Some(PathIgnored))
       => (ret' = ret /\ adapters' = <<>> /\ spawns' = <<>> /\ cache' = cache)]_vars

\* a hit on the entry inserted last, with a non-empty list and a path that
\* meets the marker file without matching it
C6_Witness ==
    /\ cache_reads = 1 /\ cache_writes = 0 /\ adapters = <<>>
    /\ ret.kind = "list" /\ ret.val # <<>>
    /\ req.file_path = Some(PathKept)
    /\ cache # <<>> /\ cache[Len(cache)].key = KeyOf(req)

\* C7: a call that can reach the cache and whose text was never analysed
\* under its language invokes the adapter, whatever is cached for other
\* texts: no entry is returned for a text it was not computed from.
C7_OtherTextMisses ==
    [][(Reaches(req') /\ <<NormalizeLanguage(req'.language), req'.text>> \notin analysed)
       => (adapters' = <<NormalizeLanguage(req'.language)>> /\ cache_reads' = 1)]_vars

\* the second of two texts that differ in one character was analysed under
\* the same language and got equal diagnostics
C7_Witness ==
    /\ Len(cache) = 2 /\ cache_writes = 1 /\ adapters = <<ReqLanguage>>
    /\ cache[1].key[1] = cache[2].key[1]
    /\ cache[1].key[2] # cache[2].key[2]
    /\ cache[1].value = cache[2].value
    /\ {<<ReqLanguage, <<"a">>>>, <<ReqLanguage, <<"a", "\n">>>>} \subseteq analysed

\* the second of two calls on one text under two supported languages
TwoLanguages ==
    /\ ret.kind = "list" /\ Reaches(req) /\ Reaches(req')
    /\ req'.text = req.text
    /\ NormalizeLanguage(req'.language) # ReqLanguage

\* what C8 says of such a second call
TwoEntries ==
    /\ HasKey(cache, KeyOf(req'))
       \/ adapters' = <<NormalizeLanguage(req'.language)>>
    /\ HasKey(cache, KeyOf(req')) => Some(ret'.val) = _cache_get(cache, KeyOf(req'))
    /\ adapters' # <<ReqLanguage>>
    /\ KeyOf(req) # KeyOf(req')
    /\ HasKey(cache', KeyOf(req))
    /\ HasKey(cache', KeyOf(req'))

\* C8 as stated: one text linted under two supported languages invokes two
\* adapters and leaves two distinct cache entries; no result crosses languages.
C8_Original == [][TwoLanguages => TwoEntries]_vars

\* C8 amended: the same, unless storing the second result evicts the first
\* language's entry (the cache is full and that entry is its oldest).
C8_TwoLanguagesTwoEntries ==
    [][(/\ TwoLanguages
        /\ \/ Len(cache) < _CACHE_MAX
           \/ cache[1].key # KeyOf(req)
           \/ HasKey(cache, KeyOf(req')))
       => TwoEntries]_vars

\* the first text was analysed as python and then as javascript, and both
\* entries are cached
C8_Witness ==
    /\ adapters = <<<<"javascript">>>> /\ cache_writes = 1
    /\ req.text = Fresh(0)
    /\ HasKey(cache, <<<<"python">>, sha256(Fresh(0))>>)
    /\ HasKey(cache, <<<<"javascript">>, sha256(Fresh(0))>>)

\* C9: a call with an empty or whitespace-only text and a supported
\* language returns [], reads and writes no cache entry, invokes no adapter
\* and spawns nothing.
C9_BlankShortCircuits ==
    (Called /\ ReqBlank /\ ReqLanguage \in Supported)
        => /\ ReturnedList(<<>>)
           /\ cache = pre
           /\ cache_reads = 0 /\ cache_writes = 0
           /\ adapters = <<>> /\ spawns = <<>> /\ probes = <<>>

\* a whitespace-only text, a supported language, a path that is not
\* ignored, and results in the cache
C9_Witness ==
    /\ Called /\ req.text = <<" ", "\n">> /\ ReqLanguage \in Supported
    /\ req.file_path = Some(PathKept)
    /\ cache # <<>>

\* C10: a call with an ignored path returns [], invokes no adapter and
\* leaves the cache as it is, whatever the text and the cache; the call
\* after it with the same text and language and a path that is not ignored
\* gets the cached list if there is one and the adapter's otherwise.
C10_IgnoredSkips ==
    [][/\ req'.file_path = Some(PathIgnored)
          => (ret' = [kind |-> "list", val |-> <<>>, exc |-> ""]
              /\ adapters' = <<>> /\ spawns' = <<>>
              /\ cache_reads' = 0 /\ cache_writes' = 0 /\ cache' = cache)
       /\ (/\ Called /\ ReqIgnored /\ Reaches(req')
           /\ req'.text = req.text /\ req'.language = req.language)
          => IF HasKey(cache, KeyOf(req'))
             THEN ret'.kind = "list" /\ Some(ret'.val) = _cache_get(cache, KeyOf(req'))
                  /\ adapters' = <<>>
             ELSE adapters' = <<NormalizeLanguage(req'.language)>>]_vars

\* an ignored call for a text whose non-empty result is cached
C10_Witness ==
    /\ Called /\ ReqIgnored /\ ~ReqBlank
    /\ HasKey(cache, KeyOf(req))
    /\ _cache_get(cache, KeyOf(req)) # Some(<<>>)
    /\ ReturnedList(<<>>)
    /\ cache = pre

\* a diagnostic with all four fields, line and column at least 1, a message
\* that is not empty and one of the three severities
WellFormed(d) ==
    /\ DOMAIN d = {"line", "col", "message", "severity"}
    /\ d.line \in Nat /\ d.line >= 1
    /\ d.col \in Nat /\ d.col >= 1
    /\ d.message # <<>>
    /\ d.severity \in {"error", "warning", "info"}

\* C11: every diagnostic of every list lint returns has line >= 1, col >= 1,
\* a non-empty message and a severity among error, warning, info, whatever
\* the backend printed.
C11_DiagnosticsWellFormed ==
    ret.kind = "list" => \A i \in 1..Len(ret.val) : WellFormed(ret.val[i])

\* C13: an adapter call that created its temporary file leaves no file
\* behind when it returns or raises, unless the delete itself failed.
C13_TempFileRemoved ==
    (tmp.created /\ tmp.unlink # "failed") => ~tmp.left

\* what the runner returned for the i-th subprocess.run of the most recent call
RunnerResult(i) == _run_process(spawns[i].argv, spawns[i].o)

\* the runner's result carries no output
NoOutput(r) == r.out = EmptyOut /\ r.err = <<>>

\* what C14 says of the failures: timeout, missing executable, other failure
FailuresAsData(i) ==
    LET o == spawns[i].o
        r == RunnerResult(i)
    IN /\ o.kind = "timeout" => (r.code # 0 /\ NoOutput(r) /\ r.err_msg # None)
       /\ o.kind = "notfound" => (r.code = 127 /\ NoOutput(r) /\ r.err_msg # None)
       /\ o.kind \in {"oserror", "decode"}
             => (r.code = 1 /\ NoOutput(r) /\ r.err_msg # None)
       /\ o.kind = "exit" => (r.code = o.code /\ r.out = o.out /\ r.err = o.err)

\* C14 as stated: every failure is reported as data, and errorMessage is
\* absent exactly when the process was spawned and exited on its own.
C14_Original ==
    \A i \in 1..Len(spawns) :
        /\ FailuresAsData(i)
        /\ RunnerResult(i).err_msg = None <=> spawns[i].o.kind \in {"exit", "decode"}

\* C14 amended: every failure is reported as data, and errorMessage is
\* absent exactly when subprocess.run returned: the process was spawned,
\* exited on its own and its output was decoded.
C14_RunnerReportsFailuresAsData ==
    \A i \in 1..Len(spawns) :
        /\ FailuresAsData(i)
        /\ RunnerResult(i).err_msg = None <=> spawns[i].o.kind = "exit"

\* pylint was not found, and the retry's process exited with output that
\* is no text: both failures came back as data
C14_Witness ==
    /\ Len(spawns) = 2
    /\ spawns[1].o.kind = "notfound" /\ RunnerResult(1).code = 127
    /\ spawns[2].o.kind = "decode" /\ RunnerResult(2).code = 1
    /\ ret.kind = "list"

\* the subprocess.run whose result the adapter of the most recent call used
\* (the last one) ran into the timeout or could not be spawned
UsedRunFailed ==
    /\ adapters # <<>> /\ spawns # <<>>
    /\ spawns[Len(spawns)].o.kind \in {"timeout", "oserror", "notfound"}

\* C15: when the runner reports a timeout or a spawn failure for the
\* invocation whose result the adapter uses, lint returns exactly one
\* diagnostic: line 1, col 1, severity error, the runner's errorMessage.
C15_RunnerFailureOneError ==
    UsedRunFailed
        => /\ ret.kind = "list"
           /\ ret.val = <<[line |-> 1, col |-> 1,
                           message |-> RunnerResult(Len(spawns)).err_msg[1],
                           severity |-> "error"]>>

\* the compiler ran into the timeout, and the call returned the one
\* diagnostic that says so
C15_Witness ==
    /\ adapters = <<<<"c">>>> /\ Len(spawns) = 1 /\ spawns[1].o = TimedOut
    /\ ret.kind = "list" /\ Len(ret.val) = 1
    /\ ret.val[1].message[1] = "Command timed out:"

\* the tool of the most recent call ran, and its output cannot be parsed:
\* stdout that is no JSON (Python, JavaScript), or a compiler that failed
\* and whose stderr has no file:line:col: severity: message line
Unparseable ==
    /\ adapters # <<>> /\ spawns # <<>>
    /\ LET o == spawns[Len(spawns)].o IN
       /\ o.kind = "exit"
       /\ IF adapters[1] \in {<<"python">>, <<"javascript">>}
          THEN o.out.kind = "garbage"
          ELSE o.code # 0 /\ ParseFrom(o.err, 1) = <<>>

\* C16: when the tool's output cannot be parsed, lint returns a list that
\* holds one error diagnostic: the raw stderr if it is not blank, a
\* description of the failure otherwise; the list is never empty.
C16_UnparseableOneError ==
    Unparseable
        => /\ ret.kind = "list" /\ Len(ret.val) = 1
           /\ ret.val[1].severity = "error"
           /\ ret.val[1].message # <<>>
           /\ LET err == spawns[Len(spawns)].o.err IN
              strip(err) # <<>> => ret.val[1].message = strip(err)

\* two spellings of one language that differ in letter case and in
\* surrounding whitespace
PythonSpellings == {<<"python">>, <<" ", "Python", "\n">>}

\* C18: two calls with the same text whose languages differ only in letter
\* case or surrounding whitespace go to the same adapter and use the same
\* cache key: the second one is a cache hit.
C18_SpellingsShareKey ==
    [][/\ (req'.language \in PythonSpellings /\ adapters' # <<>>)
          => adapters' = <<<<"python">>>>
       /\ (/\ ret.kind = "list" /\ ~BlankText(req.text)
           /\ req.file_path # Some(PathIgnored) /\ req'.file_path # Some(PathIgnored)
           /\ req.language \in PythonSpellings
           /\ req'.language \in PythonSpellings \ {req.language}
           /\ req'.text = req.text)
          => /\ adapters' = <<>> /\ spawns' = <<>>
             /\ cache_reads' = 1 /\ cache_writes' = 0
             /\ ret' = ret /\ cache' = cache]_vars

\* " Python\n" was served from the entry stored under python
C18_Witness ==
    /\ req.language = <<" ", "Python", "\n">> /\ req.text = <<"a">>
    /\ cache_reads = 1 /\ cache_writes = 0 /\ adapters = <<>>
    /\ ret.kind = "list" /\ ret.val # <<>>
    /\ cache = pre
    /\ _cache_get(cache, <<<<"python">>, sha256(<<"a">>)>>) = Some(ret.val)

\* C12: while lint calls of several threads interleave, the cache holds at
\* most 128 entries, and no call fails because of a cache access.
C12_CacheSafeUnderThreads ==
    /\ Len(cache) <= _CACHE_MAX
    /\ \A t \in Threads : threads[t].ret.exc \notin {"KeyError", "RuntimeError"}

\* thread t is inside a lint call whose language is supported
InSupportedCall(t) ==
    /\ threads[t].pc # "idle"
    /\ NormalizeLanguage(threads[t].call.language) \in Supported

\* every call that was entered ends, by a return or by an exception
EveryCallEnds == (threads[1].pc # "idle") ~> (threads[1].pc = "idle")

\* C17: every lint call with a supported language eventually returns a
\* list of diagnostics, given that every spawned process exits or is cut
\* off by the timeout.
C17_CallReturnsList ==
    InSupportedCall(1) ~> (threads[1].pc = "idle" /\ threads[1].ret.kind = "list")

\* the running workers whose lint call has not ended yet
Linting == {i \in 1..Len(workers) : workers[i].state = "started"}

\* C19: at most one LintWorker is running at any moment: a request made
\* while a worker runs is only recorded, and the worker started for it does
\* not run together with another one.  A worker that is past its lint call
\* and only has to emit and end is not counted.
C19_OneWorkerAtATime == Cardinality(Linting) <= 1

\* request n is the pending one, and the window is not closing
PendingIs(n) ==
    _lint_pending # None /\ _lint_pending[1].n = n /\ ~_is_closing

\* a worker was started for request n, or a newer request took its place as
\* the pending one, or the window is closing
ServedOrSuperseded(n) ==
    \/ \E i \in 1..Len(workers) : workers[i].n = n
    \/ _lint_pending # None /\ _lint_pending[1].n > n
    \/ _is_closing

\* C20: a request recorded as pending while a worker runs is eventually
\* given a worker of its own after the running worker ends, by a result or
\* by an error, unless a newer request replaces it or the window closes.
C20_PendingIsServed ==
    \A n \in 1..MaxRequests : PendingIs(n) ~> ServedOrSuperseded(n)

\* the subprocess.run calls of the most recent call that started a process:
\* one that was not found or could not be spawned started none
StartedRuns ==
    {i \in 1..Len(spawns) : spawns[i].o.kind \in {"exit", "timeout", "decode"}}

\* C21: each lint call starts at most one external process, for every
\* language and every tool outcome (a run that found no executable does not
\* count).
C21_OneProcessPerCall == Cardinality(StartedRuns) <= 1

\* the diagnostics of the two well-formed items of PylintMixed and of
\* EslintMixed, in their order
MixedKept ==
    <<[line |-> 3, col |-> 2, message |-> <<"first">>, severity |-> "error"],
      [line |-> 7, col |-> 1, message |-> <<"last">>, severity |-> "warning"]>>

\* the adapter of the most recent call parsed this output of its tool
Parsed(language, o) ==
    adapters = <<language>> /\ spawns # <<>> /\ spawns[Len(spawns)].o = o

\* C22: in a JSON batch from pylint or eslint a malformed item (no object,
\* or a line that is no number) is skipped and every well-formed item of the
\* batch is returned as a diagnostic; one malformed item aborts neither the
\* batch nor the call, in the Python and in the JavaScript adapter alike.
C22_MalformedItemSkipped ==
    /\ Parsed(<<"python">>, PylintMixed) => ReturnedList(MixedKept)
    /\ Parsed(<<"javascript">>, EslintMixed) => ReturnedList(MixedKept)

\* the Python adapter alone
C22_PythonSkips == Parsed(<<"python">>, PylintMixed) => ReturnedList(MixedKept)

\* the one diagnostic of an adapter that found no candidate compiler
NoCompilerFound ==
    <<ErrorAt11(<<"No compiler found (clang/gcc). Install a compiler first.">>)>>

\* C23: every list an adapter returns is stored in the cache, a list that
\* holds only the error diagnostic of a transient failure included; a later
\* call with the same text and language returns that list without running
\* or probing for the tool, even when the tool is there by then, as long as
\* the entry is in the cache.
C23_FailureListsAreCached ==
    [][/\ (adapters' # <<>> /\ ret'.kind = "list")
          => /\ cache_writes' = 1
             /\ _cache_get(cache', KeyOf(req')) = Some(ret'.val)
       /\ (Reaches(req') /\ HasKey(cache, KeyOf(req')))
          => /\ ret'.kind = "list"
             /\ Some(ret'.val) = _cache_get(cache, KeyOf(req'))
             /\ adapters' = <<>> /\ spawns' = <<>> /\ probes' = <<>>
             /\ cache' = cache]_vars

\* a call for C source with the compilers installed was served the cached
\* "no compiler found" list, and probed for nothing
C23_Witness ==
    /\ ReqLanguage = <<"c">> /\ req.located
    /\ cache_reads = 1 /\ cache_writes = 0
    /\ adapters = <<>> /\ spawns = <<>> /\ probes = <<>>
    /\ ReturnedList(NoCompilerFound)
    /\ _cache_get(cache, ReqKey) = Some(NoCompilerFound)

\* C24: the Python adapter runs the pylint executable first, and runs the
\* interpreter's module form (same flags, same temporary file) if and only
\* if the first run reported that the tool was not found; after a timeout or
\* any other outcome there is no retry; the result after a retry is computed
\* from the retry's output alone.
C24_RetryIffNotFound ==
    (adapters = <<<<"python">>>> /\ spawns # <<>>)
        => /\ spawns[1].tool = "pylint"
           /\ spawns[1].argv[1] = <<"pylint">>
           /\ Len(spawns) <= 2
           /\ Len(spawns) = 2 <=> spawns[1].o.kind = "notfound"
           /\ Len(spawns) = 2
                 => /\ spawns[2].argv
                          = Args(<<sys_executable, "-m">>) \o spawns[1].argv
                    /\ spawns[2].o.kind = "exit"
                          => ret.val = _lint_python_pylint(
                                           req.text,
                                           World(TRUE, {}, spawns[2].o, Missing)).val

\* the number of inserts after which the i-th entry of cache c is evicted:
\* the inserts that fill the cache up, then one per entry before it, then
\* its own
InsertsLeft(c, i) == (_CACHE_MAX - Len(c)) + i

\* the most recent call looked its key up and did not find it
Missed == cache_reads = 1 /\ ~HasKey(pre, ReqKey)

\* the most recent call brought every entry one insert closer to its
\* eviction, and evicted the entry that had one insert left
OneInsertCloser ==
    \A i \in 1..Len(pre) :
        IF InsertsLeft(pre, i) = 1
        THEN ~HasKey(cache, pre[i].key)
        ELSE \E j \in {i - 1, i} \cap (1..Len(cache)) :
                 /\ cache[j] = pre[i]
                 /\ InsertsLeft(cache, j) = InsertsLeft(pre, i) - 1

\* first-in first-out: an insert into a cache at capacity removes exactly
\* the entry inserted earliest and puts the new one last; a call that
\* inserts nothing (a hit among them) leaves the cache and its order alone
FirstInFirstOut ==
    /\ (Called /\ cache_writes = 0) => cache = pre
    /\ (cache_writes = 1 /\ Len(pre) >= _CACHE_MAX)
          => cache = Append(Tail(pre), [key |-> ReqKey, value |-> ret.val])
    /\ cache_writes = 1
          => /\ cache[Len(cache)] = [key |-> ReqKey, value |-> ret.val]
             /\ InsertsLeft(cache, Len(cache)) = _CACHE_MAX

CompilerProbed == adapters \in {<<<<"c">>>>, <<<<"cpp">>>>} /\ probes # <<>>

\* C26: for C the candidates are clang then gcc, for C++ clang++ then g++,
\* and the first one found is the compiler that is run; when none is found
\* the adapter returns one error diagnostic at line 1, col 1 that says no
\* compiler is available, spawns nothing, and still deletes its temporary
\* file (the file is left only if the delete itself fails).
C26_FirstCompilerWins ==
    CompilerProbed
        => LET candidates == Candidates(adapters[1] = <<"cpp">>) IN
           /\ probes[1].tool = candidates[1]
           /\ IF probes[1].found
              THEN Len(probes) = 1 /\ Len(spawns) = 1 /\ spawns[1].tool = candidates[1]
              ELSE /\ Len(probes) = 2 /\ probes[2].tool = candidates[2]
                   /\ IF probes[2].found
                      THEN Len(spawns) = 1 /\ spawns[1].tool = candidates[2]
                      ELSE /\ spawns = <<>>
                           /\ ReturnedList(NoCompilerFound)
                           /\ tmp.created /\ tmp.unlink # "none"
                           /\ tmp.left => tmp.unlink = "failed"

\* neither clang++ nor g++ was found: one diagnostic, no process, no file left
C26_Witness ==
    /\ adapters = <<<<"cpp">>>>
    /\ probes = <<[tool |-> "clang++", found |-> FALSE], [tool |-> "g++", found |-> FALSE]>>
    /\ spawns = <<>>
    /\ ReturnedList(NoCompilerFound)
    /\ tmp.created /\ tmp.unlink = "ok" /\ ~tmp.left

\* the most recent call ran the Python or the JavaScript adapter, whose tool
\* exited by itself and printed a JSON list the adapter's loops went through
ItemsParsed ==
    /\ adapters \in {<<<<"python">>>>, <<<<"javascript">>>>}
    /\ spawns # <<>> /\ spawns[Len(spawns)].o.kind = "exit"
    /\ spawns[Len(spawns)].o.out.kind # "garbage"
    /\ ret.kind = "list"
    /\ LET items == py_iter(json_loads(spawns[Len(spawns)].o.out).val) IN
       /\ ~items.raised
       /\ adapters[1] = <<"javascript">> => ~EslintFiles(items.val).raised

\* the diagnostics of the parsed items of the most recent call
ItemDiagnostics ==
    LET items == py_iter(json_loads(spawns[Len(spawns)].o.out).val).val
    IN IF adapters[1] = <<"python">> THEN PylintItems(items)
       ELSE EslintFiles(items).val

\* C27: in the Python and JavaScript adapters, after the parsed items, one
\* error diagnostic that carries the stripped stderr is appended if and only
\* if the tool's exit code is outside the accepted set ({0,1,2,4,8,16,32} for
\* pylint, {0,1,2} for eslint) and stderr is not blank; otherwise nothing is
\* appended.
C27_StderrAppendedOnOddExit ==
    ItemsParsed
        => LET o == spawns[Len(spawns)].o
               accepted == IF adapters[1] = <<"python">> THEN {0, 1, 2, 4, 8, 16, 32}
                           ELSE {0, 1, 2}
           IN IF o.code \notin accepted /\ strip(o.err) # <<>>
              THEN ret.val = ItemDiagnostics
                                 \o <<[line |-> 1, col |-> 1, message |-> strip(o.err),
                                       severity |-> "error"]>>
              ELSE ret.val = ItemDiagnostics

\* eslint exited with 3, printed one message and a usage error: the list is
\* the message's diagnostic and then the stderr text
C27_Witness ==
    /\ Parsed(<<"javascript">>, ToolFailed)
    /\ ret.kind = "list" /\ Len(ret.val) = 2
    /\ ret.val[1].message = <<"bad">>
    /\ ret.val[2] = [line |-> 1, col |-> 1, message |-> <<"usage error">>,
                     severity |-> "error"]

\* the most recent call ran the C or the C++ adapter, whose compiler was
\* spawned and exited by itself
CompilerRan ==
    /\ adapters \in {<<<<"c">>>>, <<<<"cpp">>>>}
    /\ Len(spawns) = 1 /\ spawns[1].o.kind = "exit"

\* C28: in the C and C++ adapters, when the compiler ran, its exit code is
\* outside {0,1} and no diagnostic was parsed from stderr, the result is one
\* error diagnostic at line 1, col 1 whose message is the stripped stderr, or
\* "<compiler> compilation failed" when stderr is blank; whenever a
\* diagnostic was parsed, the result is the parsed diagnostics alone.
C28_GenericCompilerError ==
    CompilerRan
        => LET o == spawns[1].o
               parsed == ParseFrom(o.err, 1)
           IN /\ parsed # <<>> => ReturnedList(parsed)
              /\ (o.code \notin {0, 1} /\ parsed = <<>>)
                    => ReturnedList(
                           <<[line |-> 1, col |-> 1,
                              message |-> IF strip(o.err) # <<>> THEN strip(o.err)
                                          ELSE <<spawns[1].tool, " ", "compilation failed">>,
                              severity |-> "error"]>>)

\* gcc died of a signal and printed nothing: the fallback message names it
C28_Witness ==
    /\ adapters = <<<<"c">>>> /\ Len(spawns) = 1
    /\ spawns[1].tool = "gcc" /\ spawns[1].o = Crash
    /\ ReturnedList(<<[line |-> 1, col |-> 1,
                       message |-> <<"gcc", " ", "compilation failed">>,
                       severity |-> "error"]>>)

\* the directories above an absolute path, nearest first
RECURSIVE Ancestors(_)
Ancestors(path) ==
    IF dirname(path) = path \/ path = <<>> THEN {}
    ELSE {dirname(path)} \cup Ancestors(dirname(path))

\* line is a rule: not blank and no comment
IsRule(line) == strip(line) # <<>> /\ Head(strip(line)) # "#"

\* every rule of every marker file that can be read in an ancestor
\* directory of path, with the directory it was found in
CollectedRules(fs, path) ==
    UNION {{<<d, strip(fs[d].lines[i])>> :
               i \in {j \in 1..Len(fs[d].lines) : IsRule(fs[d].lines[j])}} :
           d \in {e \in Ancestors(path) \cap DOMAIN fs : fs[e].readable}}

\* fs with one more line in the marker file of directory d
AddRule(fs, d, line) ==
    IF d \in DOMAIN fs THEN [fs EXCEPT ![d].lines = Append(@, line)]
    ELSE fs @@ (d :> [readable |-> TRUE, lines |-> <<line>>])

\* the lines a user may add
RuleLines == {<<"a">>, <<"b">>, <<"s", "/">>, <<"*">>, <<"#", "x">>}

\* the most recent call was skipped: it returned [] before any cache access
Skipped == ReturnedList(<<>>) /\ cache_reads = 0 /\ adapters = <<>>

\* C29: the ignore decision honours every ancestor directory.  With no
\* path, or with no rule in any ancestor's marker file, a call is not
\* skipped; otherwise it is skipped if and only if at least one rule
\* collected from any ancestor directory, near or far, matches the path.
\* Adding a rule at any level never turns an ignored path into one that is
\* not ignored.
C29_EveryAncestorCounts ==
    /\ (Called /\ ~ReqBlank)
          => /\ req.file_path = None => ~Skipped
             /\ req.file_path # None
                   => (Skipped <=>
                          \E rule \in CollectedRules(markers, abspath(req.file_path[1])) :
                              RuleMatches(abspath(req.file_path[1]), rule))
    /\ \A file_path \in Paths, d \in IgnoreDirs, line \in RuleLines :
          _is_ignored(markers, file_path)
              => _is_ignored(AddRule(markers, d, line), file_path)

\* /p/s holds a marker file whose rules do not match /p/s/a, the root's
\* marker file holds the glob p/*, and the call for /p/s/a was skipped
C29_Witness ==
    /\ Called /\ req.file_path = Some(PathIgnored) /\ Skipped
    /\ <<"/", "p", "/", "s">> \in DOMAIN markers
    /\ markers[<<"/", "p", "/", "s">>].lines = <<<<"#", "a">>, <<"s", "/", "\n">>>>
    /\ <<"/", "p">> \notin DOMAIN markers
    /\ <<"/">> \in DOMAIN markers
    /\ markers[<<"/">>].lines = <<<<"p", "/", "*">>>>

\* the table of the specification, by the spelling of the raw value
SeverityTable(raw) ==
    IF raw \in {JStr(<<"fatal">>), JStr(<<"Fatal">>), JStr(<<"error">>), JStr(<<"ERROR">>)}
    THEN "error"
    ELSE IF raw \in {JStr(<<"info">>), JStr(<<"Info">>), JStr(<<"information">>),
                     JStr(<<"Information">>)}
    THEN "info"
    ELSE "warning"

\* C30: severity normalization is a total function onto error, warning and
\* info over the strings and the missing value: compared without regard to
\* letter case, fatal and error give error; warning, refactor and convention
\* give warning; info and information give info; a missing or empty value
\* and every other word give warning.
C30_SeverityTotal ==
    /\ \A i \in 1..Len(SeverityCases) :
          /\ ~_normalize_severity(IF SeverityCases[i] = Absent THEN JNull
                                  ELSE SeverityCases[i]).raised
          /\ (Called /\ req.text = Fresh(i))
                => /\ ret.kind = "list" /\ Len(ret.val) = 1
                   /\ ret.val[1].severity = SeverityTable(SeverityCases[i])
    /\ {SeverityTable(SeverityCases[i]) : i \in 1..Len(SeverityCases)}
          = {"error", "warning", "info"}

\* the item of type "Information" came back as an info diagnostic, and the
\* one of type "Hint" before it as a warning
C30_Witness ==
    /\ Called /\ req.text = Fresh(14) /\ adapters = <<<<"python">>>>
    /\ ret.val = <<[line |-> 2, col |-> 1, message |-> <<"m">>, severity |-> "info"]>>
    /\ Len(cache) = 2
    /\ cache[1].key = CacheKey(Fresh(16), <<"python">>)
    /\ cache[1].value[1].severity = "warning"

====
